---- MODULE Spec2Model ----
(***************************************************************************)
(* deja: a command-line memoizer.  Model of the disk cache (src/cache.rs), *)
(* the cache actions (src/deja.rs) and the exit-code mapping of main       *)
(* (src/main.rs).                                                          *)
(*                                                                         *)
(* The cache root is modelled as its files: one metadata file per hash     *)
(* (a sequence of serialized tokens) and the set of stream files           *)
(* <hash>.<ulid>.out / <hash>.<ulid>.err.  An invocation of the tool is a  *)
(* process that walks through the file-system steps of its handler.        *)
(***************************************************************************)
EXTENDS Integers, Sequences, FiniteSets, TLC

\* ------------------------------------------------------------------ bounds
MaxTime == 2        \* the wall clock runs over 0..MaxTime
MaxUlid == 2        \* at most MaxUlid recordings (one fresh ulid each)
MaxCacheFor == 1    \* --cache-for durations 1..MaxCacheFor (or absent)
MaxLookBack == 2    \* --look-back durations 1..MaxLookBack (or absent)
MaxLines == 4       \* the child writes at most MaxLines lines
MaxElapsed == 3     \* start.elapsed() runs over 0..MaxElapsed while capturing

\* ------------------------------------------------------------- input sets
Hashes == {"h1", "h2"}
Procs == {1, 2}
NoneT == -1                                   \* Option::None of a time/duration
ChildCodes == {0, 3}                          \* exit codes the child may produce
CodeSets == {{0}, {0, 3}}                     \* --record-exit-codes 0 / 0,3
CacheFors == {NoneT} \cup (1..MaxCacheFor)
LookBacks == {NoneT} \cup (1..MaxLookBack)
MissCodes == {1, 2}                           \* --cache-miss-exit-code

\* ------------------------------------------------- entries and their files
\* DiskCacheEntry { meta { created, expires, status }, stdout, stderr }
NoEntry == [created |-> -1, expires |-> NoneT, status |-> -1, stdout |-> 0, stderr |-> 0]

\* a metadata path: absent, or a file (ino names the inode, so that a writer
\* holding a descriptor of an unlinked file does not touch its successor)
NoFile == [exists |-> FALSE, ino |-> 0, bytes |-> <<>>]

\* decimal digits of an exit status, as the serializer prints an i32
Digits(s) ==
    IF s < 10 THEN <<s>>
    ELSE IF s < 100 THEN <<s \div 10, s % 10>>
    ELSE <<s \div 100, (s \div 10) % 10, s % 10>>

RECURSIVE DigitToks(_)
DigitToks(ds) ==
    IF ds = <<>> THEN <<>> ELSE <<<<"digit", Head(ds)>>>> \o DigitToks(Tail(ds))

\* ron::ser::to_writer_pretty of a DiskCacheEntry: the text is a sequence of
\* tokens whose number depends on the entry (expires: None is shorter than
\* expires: Some(..); a status has one to three digits).
Serialize(e) ==
    <<<<"created", e.created>>>>
    \o (IF e.expires = NoneT THEN <<<<"expires", 0>>>>
        ELSE <<<<"expires", 1>>, <<"secs", e.expires>>>>)
    \o DigitToks(Digits(e.status))
    \o <<<<"stdout", e.stdout>>, <<"stderr", e.stderr>>, <<"end", 0>>>>

Tok(b, i) == IF i >= 1 /\ i <= Len(b) THEN b[i] ELSE <<"eof", 0>>

\* ron::de::from_reader: parses the whole file; any malformed, missing or
\* trailing token is an error.
Deserialize(b) ==
    LET hasExp == Tok(b, 2) = <<"expires", 1>>
        p == IF hasExp THEN 4 ELSE 3
        nd == IF Tok(b, p + 1)[1] # "digit" THEN 1
              ELSE IF Tok(b, p + 2)[1] # "digit" THEN 2 ELSE 3
        q == p + nd
        val == IF nd = 1 THEN Tok(b, p)[2]
               ELSE IF nd = 2 THEN Tok(b, p)[2] * 10 + Tok(b, p + 1)[2]
               ELSE Tok(b, p)[2] * 100 + Tok(b, p + 1)[2] * 10 + Tok(b, p + 2)[2]
        ok == /\ Tok(b, 1)[1] = "created"
              /\ Tok(b, 2)[1] = "expires"
              /\ hasExp => Tok(b, 3)[1] = "secs"
              /\ Tok(b, p)[1] = "digit"
              /\ Tok(b, q)[1] = "stdout"
              /\ Tok(b, q + 1)[1] = "stderr"
              /\ Tok(b, q + 2)[1] = "end"
              /\ Len(b) = q + 2
    IN IF ok
       THEN [tag |-> "some",
             entry |-> [created |-> Tok(b, 1)[2],
                        expires |-> IF hasExp THEN Tok(b, 3)[2] ELSE NoneT,
                        status |-> val,
                        stdout |-> Tok(b, q)[2],
                        stderr |-> Tok(b, q + 1)[2]]]
       ELSE [tag |-> "err", entry |-> NoEntry]

\* a write(2) of one token at file offset i: overwrites in place, extends the
\* file when i is past its end, never shortens it
WriteAt(b, i, t) ==
    IF i <= Len(b) THEN [b EXCEPT ![i] = t] ELSE Append(b, t)

\* a stdout path that leaves the hash out of the file name
OutFile_without_hash(h, u) == <<"h1", u, "out">>

\* DiskCache::path of the two stream files: <hash>.<ulid>.out and .err
OutFile(h, u) == <<h, u, "out">>
ErrFile(h, u) == <<h, u, "err">>

\* hist is a history of the cache root: the hashes whose metadata a record
\* has written since the root was created or since their last successful
\* remove, the last finished invocation when it was a force that persisted
\* its entry, and whether an invocation has ended in an error or a panic.
\* cap is the state of one Command::run and of the replay of what it
\* captured (see below).
\* sc is a pair of scope builders and the hashes built from them, perm the
\* modes of a cache root and of one file in it, opt a --record-exit-codes
\* parameter and the table parsed from it, rp the loop of replay_output over
\* two stream files (see below).
VARIABLES now, meta, streams, nextUlid, inv, hist, cap, sc, perm, opt, rp

vars == <<now, meta, streams, nextUlid, inv, hist, cap, sc, perm, opt, rp>>

\* ------------------------------------------------------- cache operations
\* DiskCache::read
DiskCache_read(h) ==
    IF meta[h].exists THEN Deserialize(meta[h].bytes)
    ELSE [tag |-> "none", entry |-> NoEntry]

\* CacheEntry::is_fresh at wall-clock time t
is_fresh(e, t) == e.expires = NoneT \/ t < e.expires

\* an age test that answers yes for the older entries
is_younger_than_reversed(e, d, t) ==
    IF t < e.created THEN "panic"
    ELSE IF t - e.created > d THEN "yes" ELSE "no"

\* CacheEntry::is_younger_than: created.elapsed().unwrap() < duration;
\* elapsed() is an Err when the clock is before created, and unwrap panics
is_younger_than(e, d, t) ==
    IF t < e.created THEN "panic"
    ELSE IF t - e.created < d THEN "yes" ELSE "no"

\* a lookup that forgets the max_age filter
find_ignoring_max_age(h, max_age, t) ==
    LET r == DiskCache_read(h) IN
    IF r.tag # "some" THEN r
    ELSE IF ~is_fresh(r.entry, t) THEN [tag |-> "none", entry |-> NoEntry]
    ELSE r

\* Cache::find
find(h, max_age, t) ==
    LET r == DiskCache_read(h) IN
    IF r.tag # "some" THEN r
    ELSE IF ~is_fresh(r.entry, t) THEN [tag |-> "none", entry |-> NoEntry]
    ELSE IF max_age = NoneT THEN r
    ELSE LET y == is_younger_than(r.entry, max_age, t) IN
         IF y = "panic" THEN [tag |-> "panic", entry |-> NoEntry]
         ELSE IF y = "yes" THEN r
         ELSE [tag |-> "none", entry |-> NoEntry]

\* a classification that forgets the look-back
find_any_result_ignoring_look_back(h, look_back, t) ==
    LET r == DiskCache_read(h) IN
    IF r.tag = "err" THEN [tag |-> "Err", entry |-> NoEntry]
    ELSE IF r.tag = "none" THEN [tag |-> "Missing", entry |-> NoEntry]
    ELSE IF ~is_fresh(r.entry, t) THEN [tag |-> "Expired", entry |-> r.entry]
    ELSE [tag |-> "Fresh", entry |-> r.entry]

\* find_any_result_from_cache
find_any_result_from_cache(h, look_back, t) ==
    LET r == DiskCache_read(h) IN
    IF r.tag = "err" THEN [tag |-> "Err", entry |-> NoEntry]
    ELSE IF r.tag = "none" THEN [tag |-> "Missing", entry |-> NoEntry]
    ELSE IF ~is_fresh(r.entry, t) THEN [tag |-> "Expired", entry |-> r.entry]
    ELSE IF look_back = NoneT THEN [tag |-> "Fresh", entry |-> r.entry]
    ELSE LET y == is_younger_than(r.entry, look_back, t) IN
         IF y = "panic" THEN [tag |-> "Panic", entry |-> r.entry]
         ELSE IF y = "no" THEN [tag |-> "TooOld", entry |-> r.entry]
         ELSE [tag |-> "Fresh", entry |-> r.entry]

\* RecordOptions::should_record
should_record(codes, status) == status \in codes

\* main: Ok(status) exits with status, Err(e) exits with 1; a panic aborts
\* the process with code 101
ExitOk(c) == [kind |-> "ok", code |-> c]
ExitErr == [kind |-> "err", code |-> 1]
ExitPanic == [kind |-> "panic", code |-> 101]
NoExit == [kind |-> "none", code |-> -1]

\* ------------------------------------------------------------ invocations
Idle ==
    [pc |-> "idle", op |-> "none", hash |-> "h1",
     cache_for |-> NoneT, codes |-> {}, look_back |-> NoneT, miss |-> 0,
     at |-> -1, verdict |-> "none", seen |-> NoEntry,
     rnow |-> -1, ulid |-> 0, spawns |-> 0, status |-> -1,
     existing |-> NoEntry, fino |-> 0, wpos |-> 0, wrote |-> FALSE,
     replayed |-> FALSE,
     exit |-> NoExit, snap_meta |-> [h \in Hashes |-> NoFile], snap_streams |-> {}]

\* no invocation has finished yet, or the last one was not a force that
\* persisted its entry
NoPrev == [force |-> FALSE, hash |-> "h1", ulid |-> 0, nstreams |-> 0]

\* no scope built, no file created, no parameter parsed
ScIdle ==
    [pc |-> "none", odd |-> "carry", changed |-> "none",
     a |-> [format |-> <<>>, cmd |-> <<>>, args |-> <<>>, shared |-> FALSE,
            user |-> [some |-> FALSE, v |-> <<>>], pwd |-> [some |-> FALSE, v |-> <<>>],
            watch_paths |-> <<>>, watch_scope |-> <<>>, watch_env |-> <<>>],
     b |-> [format |-> <<>>, cmd |-> <<>>, args |-> <<>>, shared |-> FALSE,
            user |-> [some |-> FALSE, v |-> <<>>], pwd |-> [some |-> FALSE, v |-> <<>>],
            watch_paths |-> <<>>, watch_scope |-> <<>>, watch_env |-> <<>>],
     who |-> [a |-> <<>>, b |-> <<>>],
     ha |-> [ok |-> FALSE, hex |-> [pre |-> <<>>]],
     hb |-> [ok |-> FALSE, hex |-> [pre |-> <<>>]]]
PermIdle ==
    [pc |-> "none", shared |-> FALSE, umask |-> {}, dir |-> [exists |-> FALSE, mode |-> {}],
     made |-> FALSE, file |-> [exists |-> FALSE, mode |-> {}, own |-> FALSE],
     old |-> [exists |-> FALSE, mode |-> {}, own |-> FALSE]]
OptIdle ==
    [pc |-> "none", given |-> FALSE, parts |-> <<>>, param |-> <<>>,
     table |-> [tag |-> "none", codes |-> {}], status |-> -1, answer |-> FALSE]

\* no replay_output in progress
RpIdle ==
    [pc |-> "none", o |-> <<>>, e |-> <<>>, onone |-> FALSE, enone |-> FALSE,
     out |-> <<>>]

\* no Command::run in progress
CapIdle ==
    [pc |-> "none", script |-> <<>>, pos |-> 0, child |-> "none",
     pipe |-> [s \in {"out", "err"} |-> <<>>],
     rd |-> [s \in {"out", "err"} |-> "none"],
     sink |-> [s \in {"out", "err"} |-> <<>>],
     term |-> [s \in {"out", "err"} |-> <<>>],
     clock |-> 0, emitted |-> <<>>]

Init ==
    /\ now = 0
    /\ meta = [h \in Hashes |-> NoFile]
    /\ streams = {}
    /\ nextUlid = 1
    /\ inv = [p \in Procs |-> Idle]
    /\ hist = [persisted |-> {}, prev |-> NoPrev, failed |-> FALSE]
    /\ cap = CapIdle
    /\ sc = ScIdle
    /\ perm = PermIdle
    /\ opt = OptIdle
    /\ rp = RpIdle

\* the wall clock advances
Tick ==
    /\ now < MaxTime
    /\ now' = now + 1
    /\ UNCHANGED <<meta, streams, nextUlid, inv, hist, cap, sc, perm, opt, rp>>

\* ------------------------------------------------------------ the actions
Set(p, r) == inv' = [inv EXCEPT ![p] = r]

Done(i, x) == [i EXCEPT !.pc = "done", !.exit = x]

\* deja::force returns Ok(0) after a record; deja::run returns its status
RecordReturn(i) == IF i.op = "force" THEN ExitOk(0) ELSE ExitOk(i.status)

\* the entry DiskCache::record builds (cache.rs 207-218)
NewEntry(i) ==
    [created |-> i.rnow,
     expires |-> IF i.cache_for = NoneT THEN NoneT ELSE i.rnow + i.cache_for,
     status |-> i.status, stdout |-> i.ulid, stderr |-> i.ulid]

\* a lookup result handling that treats unreadable metadata as a miss
AfterFind_recovering(i, r, missStep) ==
    IF r.tag = "some" THEN [i EXCEPT !.pc = "replay", !.seen = r.entry]
    ELSE IF r.tag = "panic" THEN Done(i, ExitPanic)
    ELSE missStep

\* what run and read do with the result of the lookup
AfterFind(i, r, missStep) ==
    IF r.tag = "some" THEN [i EXCEPT !.pc = "replay", !.seen = r.entry]
    ELSE IF r.tag = "err" THEN Done(i, ExitErr)
    ELSE IF r.tag = "panic" THEN Done(i, ExitPanic)
    ELSE missStep

\* deja::run: the lookup
run(p, h, cf, codes, lb) ==
    /\ inv[p].pc = "idle"
    /\ LET i == [inv[p] EXCEPT !.op = "run", !.hash = h, !.cache_for = cf,
                              !.codes = codes,
                              !.verdict = find_any_result_from_cache(h, lb, now).tag]
       IN Set(p, AfterFind(i, find(h, lb, now), [i EXCEPT !.pc = "rec_begin"]))
    /\ UNCHANGED <<now, meta, streams, nextUlid, hist, cap, sc, perm, opt, rp>>

\* a read that runs the command on a miss, as run does
read_executing(p, h, lb, miss) ==
    /\ inv[p].pc = "idle"
    /\ LET i == [inv[p] EXCEPT !.op = "read", !.hash = h, !.miss = miss,
                              !.codes = {0},
                              !.verdict = find_any_result_from_cache(h, lb, now).tag]
       IN Set(p, AfterFind(i, find(h, lb, now), [i EXCEPT !.pc = "rec_begin"]))
    /\ UNCHANGED <<now, meta, streams, nextUlid, hist, cap, sc, perm, opt, rp>>

\* deja::read: the lookup
read(p, h, lb, miss) ==
    /\ inv[p].pc = "idle"
    /\ LET i == [inv[p] EXCEPT !.op = "read", !.hash = h, !.miss = miss,
                              !.verdict = find_any_result_from_cache(h, lb, now).tag]
       IN Set(p, AfterFind(i, find(h, lb, now), Done(i, ExitOk(miss))))
    /\ UNCHANGED <<now, meta, streams, nextUlid, hist, cap, sc, perm, opt, rp>>

\* a force that replays an entry it finds
force_unless_cached(p, h, cf, codes) ==
    /\ inv[p].pc = "idle"
    /\ LET i == [inv[p] EXCEPT !.op = "force", !.hash = h, !.cache_for = cf,
                              !.codes = codes]
       IN Set(p, AfterFind(i, find(h, NoneT, now), [i EXCEPT !.pc = "rec_begin"]))
    /\ UNCHANGED <<now, meta, streams, nextUlid, hist, cap, sc, perm, opt, rp>>

\* deja::force: goes straight to record
force(p, h, cf, codes) ==
    /\ inv[p].pc = "idle"
    /\ Set(p, [inv[p] EXCEPT !.op = "force", !.hash = h, !.cache_for = cf,
                            !.codes = codes, !.pc = "rec_begin"])
    /\ UNCHANGED <<now, meta, streams, nextUlid, hist, cap, sc, perm, opt, rp>>

\* deja::test: the exit of `test` on hash h with look-back lb at time t
deja_test(h, lb, t) ==
    LET v == find_any_result_from_cache(h, lb, t) IN
    IF v.tag = "Err" THEN ExitErr
    ELSE IF v.tag = "Panic" THEN ExitPanic
    ELSE IF v.tag = "Fresh" THEN ExitOk(0) ELSE ExitOk(1)

\* deja::test as an invocation
test(p, h, lb) ==
    /\ inv[p].pc = "idle"
    /\ LET v == find_any_result_from_cache(h, lb, now)
           i == [inv[p] EXCEPT !.op = "test", !.hash = h, !.look_back = lb,
                              !.at = now, !.verdict = v.tag, !.seen = v.entry]
       IN Set(p, Done(i, deja_test(h, lb, now)))
    /\ UNCHANGED <<now, meta, streams, nextUlid, hist, cap, sc, perm, opt, rp>>

\* deja::explain: the exit of `explain`; the elapsed()? of the Stale and
\* Expired branches is an error when the clock is before the printed time
deja_explain(h, lb, t) ==
    LET v == find_any_result_from_cache(h, lb, t) IN
    IF v.tag = "Err" THEN ExitErr
    ELSE IF v.tag = "Panic" THEN ExitPanic
    ELSE IF v.tag = "TooOld" /\ t < v.entry.created THEN ExitErr
    ELSE IF v.tag = "Expired" /\ t < v.entry.expires THEN ExitErr
    ELSE ExitOk(0)

\* deja::explain as an invocation; verdict is the line it prints
explain(p, h, lb) ==
    /\ inv[p].pc = "idle"
    /\ LET v == find_any_result_from_cache(h, lb, now)
           i == [inv[p] EXCEPT !.op = "explain", !.hash = h, !.verdict = v.tag]
       IN Set(p, Done(i, deja_explain(h, lb, now)))
    /\ UNCHANGED <<now, meta, streams, nextUlid, hist, cap, sc, perm, opt, rp>>

\* deja::hash: prints the hash, touches no cache
hash(p, h) ==
    /\ inv[p].pc = "idle"
    /\ Set(p, Done([inv[p] EXCEPT !.op = "hash", !.hash = h], ExitOk(0)))
    /\ UNCHANGED <<now, meta, streams, nextUlid, hist, cap, sc, perm, opt, rp>>

\* a replay that deletes the stream files it has replayed
replay_consuming(p) ==
    /\ inv[p].pc = "replay"
    /\ LET i == inv[p] IN
       IF OutFile(i.hash, i.seen.stdout) \in streams
          /\ ErrFile(i.hash, i.seen.stderr) \in streams
       THEN /\ Set(p, Done([i EXCEPT !.replayed = TRUE], ExitOk(i.seen.status)))
            /\ streams' = streams \ {OutFile(i.hash, i.seen.stdout),
                                      ErrFile(i.hash, i.seen.stderr)}
       ELSE /\ Set(p, Done(i, ExitPanic))
            /\ streams' = streams
    /\ UNCHANGED <<now, meta, nextUlid, hist, cap, sc, perm, opt, rp>>

\* CacheEntry::replay: opens both stream files (unwrap: a missing file is a
\* panic), replays them and returns the recorded status
replay(p) ==
    /\ inv[p].pc = "replay"
    /\ LET i == inv[p] IN
       IF OutFile(i.hash, i.seen.stdout) \in streams
          /\ ErrFile(i.hash, i.seen.stderr) \in streams
       THEN Set(p, Done([i EXCEPT !.replayed = TRUE], ExitOk(i.seen.status)))
       ELSE Set(p, Done(i, ExitPanic))
    /\ UNCHANGED <<now, meta, streams, nextUlid, hist, cap, sc, perm, opt, rp>>

\* DiskCache::record, lines 195-202: now, a fresh ulid, the two capture sinks
record_begin(p) ==
    /\ inv[p].pc = "rec_begin"
    /\ nextUlid <= MaxUlid
    /\ nextUlid' = nextUlid + 1
    /\ streams' = streams \cup {OutFile(inv[p].hash, nextUlid), ErrFile(inv[p].hash, nextUlid)}
    /\ Set(p, [inv[p] EXCEPT !.pc = "spawn", !.rnow = now, !.ulid = nextUlid,
                            !.snap_meta = meta, !.snap_streams = streams])
    /\ UNCHANGED <<now, meta, hist, cap, sc, perm, opt, rp>>

\* Command::run, lines 329-346: the spawn succeeds or fails (spawns counts the
\* calls of Command::run; status stays -1 when no child ran)
command_spawn(p, ok) ==
    /\ inv[p].pc = "spawn"
    /\ IF ok THEN Set(p, [inv[p] EXCEPT !.pc = "wait", !.spawns = @ + 1])
       ELSE Set(p, Done([inv[p] EXCEPT !.spawns = @ + 1], ExitErr))
    /\ UNCHANGED <<now, meta, streams, nextUlid, hist, cap, sc, perm, opt, rp>>

\* Command::run, lines 372-381: the child exits, the readers are joined;
\* DiskCache::record, line 206: should_record decides the branch
command_wait(p, status) ==
    /\ inv[p].pc = "wait"
    /\ Set(p, IF should_record(inv[p].codes, status)
              THEN [inv[p] EXCEPT !.status = status, !.pc = "rec_read",
                                  !.snap_meta = Idle.snap_meta,
                                  !.snap_streams = Idle.snap_streams]
              ELSE [inv[p] EXCEPT !.status = status, !.pc = "discard_out"])
    /\ UNCHANGED <<now, meta, streams, nextUlid, hist, cap, sc, perm, opt, rp>>

\* DiskCache::record, line 220: self.read(hash)?
record_read_existing(p) ==
    /\ inv[p].pc = "rec_read"
    /\ LET r == DiskCache_read(inv[p].hash) IN
       Set(p, IF r.tag = "err" THEN Done(inv[p], ExitErr)
              ELSE IF r.tag = "none" THEN [inv[p] EXCEPT !.pc = "write_open"]
              ELSE [inv[p] EXCEPT !.pc = "rm_old_out", !.existing = r.entry])
    /\ UNCHANGED <<now, meta, streams, nextUlid, hist, cap, sc, perm, opt, rp>>

\* std::fs::remove_file(f)? as one step of an invocation: an error when the
\* file is absent
remove_stream(p, f, nextpc) ==
    IF f \in streams
    THEN /\ streams' = streams \ {f}
         /\ Set(p, [inv[p] EXCEPT !.pc = nextpc])
    ELSE /\ streams' = streams
         /\ Set(p, Done(inv[p], ExitErr))

\* DiskCache::record, line 221
record_remove_old_out(p) ==
    /\ inv[p].pc = "rm_old_out"
    /\ remove_stream(p, OutFile(inv[p].hash, inv[p].existing.stdout), "rm_old_err")
    /\ UNCHANGED <<now, meta, nextUlid, hist, cap, sc, perm, opt, rp>>

\* a record that leaves the old stderr stream behind
record_remove_old_err_skip(p) ==
    /\ inv[p].pc = "rm_old_err"
    /\ Set(p, [inv[p] EXCEPT !.pc = "write_open"])
    /\ UNCHANGED <<now, meta, streams, nextUlid, hist, cap, sc, perm, opt, rp>>

\* DiskCache::record, line 222
record_remove_old_err(p) ==
    /\ inv[p].pc = "rm_old_err"
    /\ remove_stream(p, ErrFile(inv[p].hash, inv[p].existing.stderr), "write_open")
    /\ UNCHANGED <<now, meta, nextUlid, hist, cap, sc, perm, opt, rp>>

\* DiskCache::create_file on the metadata path: open with create and without
\* truncate, so an existing file keeps its bytes
create_file(f, ino) ==
    IF f.exists THEN f ELSE [exists |-> TRUE, ino |-> ino, bytes |-> <<>>]

\* DiskCache::write, lines 111-112
write_open(p) ==
    /\ inv[p].pc = "write_open"
    /\ LET f == create_file(meta[inv[p].hash], inv[p].ulid) IN
       /\ meta' = [meta EXCEPT ![inv[p].hash] = f]
       /\ Set(p, [inv[p] EXCEPT !.pc = "write", !.fino = f.ino, !.wpos = 1,
                               !.existing = NoEntry])
    /\ hist' = [hist EXCEPT !.persisted = @ \cup {inv[p].hash}]
    /\ UNCHANGED <<now, streams, nextUlid, cap, sc, perm, opt, rp>>

\* DiskCache::write, line 113: the serializer writes the text piece by piece
\* through the unbuffered File, each piece at the descriptor's offset
write_token(p) ==
    /\ inv[p].pc = "write"
    /\ LET i == inv[p]
           toks == Serialize(NewEntry(i))
           f == meta[i.hash]
       IN /\ meta' = IF f.exists /\ f.ino = i.fino
                     THEN [meta EXCEPT ![i.hash].bytes = WriteAt(f.bytes, i.wpos, toks[i.wpos])]
                     ELSE meta
          /\ Set(p, IF i.wpos = Len(toks)
                    THEN Done([i EXCEPT !.wrote = TRUE], RecordReturn(i))
                    ELSE [i EXCEPT !.wpos = @ + 1])
    /\ UNCHANGED <<now, streams, nextUlid, hist, cap, sc, perm, opt, rp>>

\* DiskCache::record, line 227
record_discard_out(p) ==
    /\ inv[p].pc = "discard_out"
    /\ remove_stream(p, OutFile(inv[p].hash, inv[p].ulid), "discard_err")
    /\ UNCHANGED <<now, meta, nextUlid, hist, cap, sc, perm, opt, rp>>

\* a discard that leaves the stderr sink behind
record_discard_err_keep(p) ==
    /\ inv[p].pc = "discard_err"
    /\ Set(p, Done(inv[p], RecordReturn(inv[p])))
    /\ UNCHANGED <<now, meta, streams, nextUlid, hist, cap, sc, perm, opt, rp>>

\* DiskCache::record, lines 228-230
record_discard_err(p) ==
    /\ inv[p].pc = "discard_err"
    /\ LET f == ErrFile(inv[p].hash, inv[p].ulid) IN
       IF f \in streams
       THEN /\ streams' = streams \ {f}
            /\ Set(p, Done(inv[p], RecordReturn(inv[p])))
       ELSE /\ streams' = streams
            /\ Set(p, Done(inv[p], ExitErr))
    /\ UNCHANGED <<now, meta, nextUlid, hist, cap, sc, perm, opt, rp>>

\* deja::remove / DiskCache::remove, line 236: path.exists()
remove(p, h) ==
    /\ inv[p].pc = "idle"
    /\ LET i == [inv[p] EXCEPT !.op = "remove", !.hash = h,
                              !.seen = DiskCache_read(h).entry] IN
       Set(p, IF meta[h].exists THEN [i EXCEPT !.pc = "unlink"]
              ELSE Done(i, ExitOk(1)))
    /\ UNCHANGED <<now, meta, streams, nextUlid, hist, cap, sc, perm, opt, rp>>

\* a remove that reports success and leaves the metadata file
remove_unlink_keep(p) ==
    /\ inv[p].pc = "unlink"
    /\ hist' = [hist EXCEPT !.persisted = @ \ {inv[p].hash}]
    /\ Set(p, Done(inv[p], ExitOk(0)))
    /\ UNCHANGED <<now, meta, streams, nextUlid, cap, sc, perm, opt, rp>>

\* DiskCache::remove, lines 237-238: remove_file of the metadata file
remove_unlink(p) ==
    /\ inv[p].pc = "unlink"
    /\ IF meta[inv[p].hash].exists
       THEN /\ meta' = [meta EXCEPT ![inv[p].hash] = NoFile]
            /\ hist' = [hist EXCEPT !.persisted = @ \ {inv[p].hash}]
            /\ Set(p, Done(inv[p], ExitOk(0)))
       ELSE /\ meta' = meta
            /\ hist' = hist
            /\ Set(p, Done(inv[p], ExitErr))
    /\ UNCHANGED <<now, streams, nextUlid, cap, sc, perm, opt, rp>>

\* the stream files of hash h in the cache root
StreamFilesOf(h) == {f \in streams : f[1] = h}

\* what hist remembers of a finished invocation
LastForce(i) ==
    IF i.op = "force" /\ i.wrote /\ i.exit.kind = "ok"
    THEN [force |-> TRUE, hash |-> i.hash, ulid |-> i.ulid,
          nstreams |-> Cardinality(StreamFilesOf(i.hash))]
    ELSE NoPrev

\* main: the process exits; the next invocation may start
finish(p) ==
    /\ inv[p].pc = "done"
    /\ Set(p, Idle)
    /\ hist' = [hist EXCEPT !.prev = LastForce(inv[p]),
                            !.failed = @ \/ inv[p].exit.kind # "ok"]
    /\ UNCHANGED <<now, meta, streams, nextUlid, cap, sc, perm, opt, rp>>

\* invocation p starts: the subcommand, its options, the hash of its command
Start(p, H) ==
    \/ \E h \in H, cf \in CacheFors, codes \in CodeSets, lb \in LookBacks :
          run(p, h, cf, codes, lb)
    \/ \E h \in H, lb \in LookBacks, miss \in MissCodes : read(p, h, lb, miss)
    \/ \E h \in H, cf \in CacheFors, codes \in CodeSets : force(p, h, cf, codes)
    \/ \E h \in H, lb \in LookBacks : test(p, h, lb)
    \/ \E h \in H : remove(p, h)

\* invocation p starts one of the subcommands that only report
Inspect(p, H) ==
    \/ \E h \in H, lb \in LookBacks : explain(p, h, lb)
    \/ \E h \in H : hash(p, h)

\* invocation p takes its next step
Continue(p) ==
    \/ replay(p)
    \/ record_begin(p)
    \/ \E ok \in BOOLEAN : command_spawn(p, ok)
    \/ \E status \in ChildCodes : command_wait(p, status)
    \/ record_read_existing(p)
    \/ record_remove_old_out(p)
    \/ record_remove_old_err(p)
    \/ write_open(p)
    \/ write_token(p)
    \/ record_discard_out(p)
    \/ record_discard_err(p)
    \/ remove_unlink(p)

\* one invocation at a time, any number of them
Next == Tick \/ Start(1, Hashes) \/ Inspect(1, Hashes) \/ Continue(1) \/ finish(1)

Spec == Init /\ [][Next]_vars

\* the wall clock is set back (SystemTime is not monotonic)
clock_back ==
    /\ \E t \in 0..(now - 1) : now' = t
    /\ UNCHANGED <<meta, streams, nextUlid, inv, hist, cap, sc, perm, opt, rp>>

\* one invocation at a time under a wall clock that can be set back
NextSkew == Next \/ clock_back

SpecSkew == Init /\ [][NextSkew]_vars

\* Two invocations of the same command on one cache root, their file steps
\* interleaved.  The cache root is empty or holds the entry a completed
\* `force` left there; the clock advances until both have started and while a
\* child runs.
ConcHash == "h1"

SeedEntry(cf) ==
    [created |-> 0, expires |-> IF cf = NoneT THEN NoneT ELSE cf,
     status |-> 0, stdout |-> 1, stderr |-> 1]

InitConc ==
    /\ now = 0
    /\ inv = [p \in Procs |-> Idle]
    /\ cap = CapIdle
    /\ sc = ScIdle
    /\ perm = PermIdle
    /\ opt = OptIdle
    /\ rp = RpIdle
    /\ \/ /\ meta = [h \in Hashes |-> NoFile]
          /\ streams = {}
          /\ nextUlid = 1
          /\ hist = [persisted |-> {}, prev |-> NoPrev, failed |-> FALSE]
       \/ \E cf \in CacheFors :
          /\ meta = [h \in Hashes |->
                       IF h = ConcHash
                       THEN [exists |-> TRUE, ino |-> 1, bytes |-> Serialize(SeedEntry(cf))]
                       ELSE NoFile]
          /\ streams = {OutFile(ConcHash, 1), ErrFile(ConcHash, 1)}
          /\ nextUlid = 2
          /\ hist = [persisted |-> {ConcHash}, prev |-> NoPrev, failed |-> FALSE]

TickConc == (\A p \in Procs : inv[p].pc \in {"idle", "wait"}) /\ Tick

NextConc == TickConc \/ \E p \in Procs : Start(p, {ConcHash}) \/ Continue(p)

SpecConc == InitConc /\ [][NextConc]_vars

TypeOK ==
    /\ now \in 0..MaxTime
    /\ nextUlid \in 1..(MaxUlid + 1)
    /\ \A h \in Hashes : meta[h].exists \in BOOLEAN

\* ------------------------------------------- capturing and replaying output
\* One Command::run with its two capture_output threads, the metadata write
\* that follows it in DiskCache::record, and replay_output of the two stream
\* files.  The child writes the lines of its script, each to stdout or to
\* stderr; a line is valid UTF-8 or not.
StreamNames == {"out", "err"}

RECURSIVE SeqsUpTo(_, _)
SeqsUpTo(S, n) ==
    IF n = 0 THEN {<<>>}
    ELSE LET shorter == SeqsUpTo(S, n - 1) IN
         shorter \cup {Append(q, x) : q \in {r \in shorter : Len(r) = n - 1}, x \in S}

Scripts == SeqsUpTo([s : StreamNames, utf8 : BOOLEAN], MaxLines)

\* Command::run, lines 329-370: the child is spawned with two pipes, start is
\* taken, both reader threads are started
CapStart(script) ==
    [CapIdle EXCEPT !.pc = "run", !.script = script, !.child = "running",
                    !.rd = [s \in StreamNames |-> "reading"]]

InitCapture ==
    /\ now = 0
    /\ meta = [h \in Hashes |-> NoFile]
    /\ streams = {}
    /\ nextUlid = 1
    /\ inv = [p \in Procs |-> Idle]
    /\ hist = [persisted |-> {}, prev |-> NoPrev, failed |-> FALSE]
    /\ sc = ScIdle
    /\ perm = PermIdle
    /\ opt = OptIdle
    /\ rp = RpIdle
    /\ \E script \in Scripts : cap = CapStart(script)

\* the lines a pipe holds before a write to it blocks
PipeCap == 2

\* the child writes its next line (numbered by its place in the script) into
\* the pipe, blocking while the pipe is full; when the reader of that pipe is
\* gone the write fails with EPIPE and the child is killed by SIGPIPE
child_write ==
    /\ cap.child = "running"
    /\ cap.pos < Len(cap.script)
    /\ LET l == cap.script[cap.pos + 1] IN
       /\ cap.rd[l.s] = "failed" \/ Len(cap.pipe[l.s]) < PipeCap
       /\ cap' = IF cap.rd[l.s] = "failed"
                 THEN [cap EXCEPT !.child = "exited"]
                 ELSE [cap EXCEPT !.pos = @ + 1,
                                  !.pipe[l.s] = Append(@, [id |-> cap.pos + 1, utf8 |-> l.utf8])]
    /\ UNCHANGED <<now, meta, streams, nextUlid, inv, hist, sc, perm, opt, rp>>

\* the child exits: the write ends of both pipes are closed
child_exit ==
    /\ cap.child = "running"
    /\ cap.pos = Len(cap.script)
    /\ cap' = [cap EXCEPT !.child = "exited"]
    /\ UNCHANGED <<now, meta, streams, nextUlid, inv, hist, sc, perm, opt, rp>>

\* start.elapsed() grows while a reader thread runs
elapse ==
    /\ \E s \in StreamNames : cap.rd[s] = "reading"
    /\ cap.clock < MaxElapsed
    /\ cap' = [cap EXCEPT !.clock = @ + 1]
    /\ UNCHANGED <<now, meta, streams, nextUlid, inv, hist, sc, perm, opt, rp>>

\* a reader thread that takes its first line only after child.wait() returned
capture_output_after_wait(s) ==
    /\ cap.pc # "run"
    /\ cap.rd[s] = "reading"
    /\ IF cap.pipe[s] # <<>>
       THEN cap' = IF Head(cap.pipe[s]).utf8
                   THEN [cap EXCEPT !.pipe[s] = Tail(@),
                                    !.term[s] = Append(@, Head(cap.pipe[s]).id),
                                    !.sink[s] = Append(@, <<cap.clock, Head(cap.pipe[s]).id>>)]
                   ELSE [cap EXCEPT !.pipe[s] = <<>>, !.rd[s] = "failed"]
       ELSE /\ cap.child = "exited"
            /\ cap' = [cap EXCEPT !.rd[s] = "eof"]
    /\ UNCHANGED <<now, meta, streams, nextUlid, inv, hist, sc, perm, opt, rp>>

\* capture_output, one turn of `while let Ok(count) = reader.read_line(line)`:
\* a line is written to the live output (term), then to the sink behind the
\* elapsed time; Ok(0) at end of file
\* ends the loop; read_line is an Err on a line that is not UTF-8, which ends
\* the loop too, and the thread drops its end of the pipe
capture_output(s) ==
    /\ cap.rd[s] = "reading"
    /\ IF cap.pipe[s] # <<>>
       THEN cap' = IF Head(cap.pipe[s]).utf8
                   THEN [cap EXCEPT !.pipe[s] = Tail(@),
                                    !.term[s] = Append(@, Head(cap.pipe[s]).id),
                                    !.sink[s] = Append(@, <<cap.clock, Head(cap.pipe[s]).id>>)]
                   ELSE [cap EXCEPT !.pipe[s] = <<>>, !.rd[s] = "failed"]
       ELSE /\ cap.child = "exited"
            /\ cap' = [cap EXCEPT !.rd[s] = "eof"]
    /\ UNCHANGED <<now, meta, streams, nextUlid, inv, hist, sc, perm, opt, rp>>

\* Command::run, lines 372-376: child.wait() returns once the child exited
child_wait ==
    /\ cap.pc = "run"
    /\ cap.child = "exited"
    /\ cap' = [cap EXCEPT !.pc = "waited"]
    /\ UNCHANGED <<now, meta, streams, nextUlid, inv, hist, sc, perm, opt, rp>>

\* Command::run, line 378: child_stdout_handle.join()
join_stdout ==
    /\ cap.pc = "waited"
    /\ cap.rd["out"] # "reading"
    /\ cap' = [cap EXCEPT !.pc = "joined_out"]
    /\ UNCHANGED <<now, meta, streams, nextUlid, inv, hist, sc, perm, opt, rp>>

\* Command::run, lines 379-381: child_stderr_handle.join(), then return
join_stderr ==
    /\ cap.pc = "joined_out"
    /\ cap.rd["err"] # "reading"
    /\ cap' = [cap EXCEPT !.pc = "returned"]
    /\ UNCHANGED <<now, meta, streams, nextUlid, inv, hist, sc, perm, opt, rp>>

\* DiskCache::record, lines 206-225, for a status to record: the metadata
\* file is written
record_write_meta ==
    /\ cap.pc = "returned"
    /\ cap' = [cap EXCEPT !.pc = "written"]
    /\ UNCHANGED <<now, meta, streams, nextUlid, inv, hist, sc, perm, opt, rp>>

\* a merge that emits the stdout record first when the timestamps are equal
RECURSIVE replay_output_stdout_first(_, _)
replay_output_stdout_first(o, e) ==
    IF o # <<>> /\ e # <<>>
    THEN IF Head(o)[1] <= Head(e)[1]
         THEN <<<<"out", Head(o)[1], Head(o)[2]>>>> \o replay_output_stdout_first(Tail(o), e)
         ELSE <<<<"err", Head(e)[1], Head(e)[2]>>>> \o replay_output_stdout_first(o, Tail(e))
    ELSE IF o # <<>>
    THEN <<<<"out", Head(o)[1], Head(o)[2]>>>> \o replay_output_stdout_first(Tail(o), e)
    ELSE IF e # <<>>
    THEN <<<<"err", Head(e)[1], Head(e)[2]>>>> \o replay_output_stdout_first(o, Tail(e))
    ELSE <<>>

\* replay_output: the loop over the two peekable readers; the result is the
\* sequence of <<destination, timestamp, line>> it prints
RECURSIVE replay_output(_, _)
replay_output(o, e) ==
    IF o # <<>> /\ e # <<>>
    THEN IF Head(o)[1] < Head(e)[1]
         THEN <<<<"out", Head(o)[1], Head(o)[2]>>>> \o replay_output(Tail(o), e)
         ELSE <<<<"err", Head(e)[1], Head(e)[2]>>>> \o replay_output(o, Tail(e))
    ELSE IF o # <<>>
    THEN <<<<"out", Head(o)[1], Head(o)[2]>>>> \o replay_output(Tail(o), e)
    ELSE IF e # <<>>
    THEN <<<<"err", Head(e)[1], Head(e)[2]>>>> \o replay_output(o, Tail(e))
    ELSE <<>>

\* CacheEntry::replay_command_output of the persisted entry
replay_command_output ==
    /\ cap.pc = "written"
    /\ cap' = [cap EXCEPT !.pc = "replayed",
                          !.emitted = replay_output(cap.sink["out"], cap.sink["err"])]
    /\ UNCHANGED <<now, meta, streams, nextUlid, inv, hist, sc, perm, opt, rp>>

NextCapture ==
    \/ child_write
    \/ child_exit
    \/ elapse
    \/ \E s \in StreamNames : capture_output(s)
    \/ child_wait
    \/ join_stdout
    \/ join_stderr
    \/ record_write_meta
    \/ replay_command_output

SpecCapture == InitCapture /\ [][NextCapture]_vars

\* ------------------------------------------------ termination of run/replay
\* replay_output read as a loop: each stream file is a sequence of items, a
\* whole record (timestamp and line), a last line cut before its newline, a
\* file cut inside the 16 timestamp bytes, a file cut right behind a
\* timestamp, or a line that is not UTF-8.
MaxRecords == 2
Stamps == {0, 1}
WholeItems == [k : {"rec"}, ts : Stamps] \cup [k : {"not_utf8"}, ts : {0}]
LastItems ==
    WholeItems \cup [k : {"part_line"}, ts : Stamps] \cup [k : {"cut_ts", "cut_line"}, ts : {0}]
StreamFiles ==
    {q \in SeqsUpTo(LastItems, MaxRecords) :
        \A k \in 1..(Len(q) - 1) : q[k] \in WholeItems}

\* OutputReader::next on the items left: a record or a cut line is Some, a
\* short read_exact, read_line = Ok(0) and read_line = Err are None; what was
\* read is consumed
OutputReader_next(q) ==
    IF q = <<>> THEN [some |-> FALSE, rest |-> <<>>]
    ELSE [some |-> Head(q).k \in {"rec", "part_line"}, rest |-> Tail(q)]

\* Peekable::peek: a None that was peeked stays; a peeked Some stays at the
\* head of the items until next() takes it
peek(q, none) ==
    IF none THEN [some |-> FALSE, q |-> q]
    ELSE IF OutputReader_next(q).some THEN [some |-> TRUE, q |-> q]
    ELSE [some |-> FALSE, q |-> OutputReader_next(q).rest]

\* replay_output, lines 245-258: the two readers are made
RpStart(o, e) == [RpIdle EXCEPT !.pc = "loop", !.o = o, !.e = e]

\* replay_output, lines 260-280: one turn of the loop
replay_loop ==
    /\ rp.pc = "loop"
    /\ LET po == peek(rp.o, rp.onone)
           pe == peek(rp.e, rp.enone)
           r == [rp EXCEPT !.o = po.q, !.e = pe.q, !.onone = ~po.some, !.enone = ~pe.some]
       IN rp' = IF po.some /\ pe.some
                THEN IF Head(po.q).ts < Head(pe.q).ts
                     THEN [r EXCEPT !.o = Tail(@), !.out = Append(@, <<"out", Head(po.q).ts>>)]
                     ELSE [r EXCEPT !.e = Tail(@), !.out = Append(@, <<"err", Head(pe.q).ts>>)]
                ELSE IF po.some
                THEN [r EXCEPT !.o = Tail(@), !.out = Append(@, <<"out", Head(po.q).ts>>)]
                ELSE IF pe.some
                THEN [r EXCEPT !.e = Tail(@), !.out = Append(@, <<"err", Head(pe.q).ts>>)]
                ELSE [r EXCEPT !.pc = "end"]
    /\ UNCHANGED <<now, meta, streams, nextUlid, inv, hist, cap, sc, perm, opt>>

\* either one Command::run or one replay_output
InitLive ==
    /\ now = 0
    /\ meta = [h \in Hashes |-> NoFile]
    /\ streams = {}
    /\ nextUlid = 1
    /\ inv = [p \in Procs |-> Idle]
    /\ hist = [persisted |-> {}, prev |-> NoPrev, failed |-> FALSE]
    /\ sc = ScIdle
    /\ perm = PermIdle
    /\ opt = OptIdle
    /\ \/ rp = RpIdle /\ \E script \in Scripts : cap = CapStart(script)
       \/ cap = CapIdle /\ \E o \in StreamFiles, e \in StreamFiles : rp = RpStart(o, e)

NextLive ==
    \/ child_write
    \/ child_exit
    \/ \E s \in StreamNames : capture_output(s)
    \/ child_wait
    \/ join_stdout
    \/ join_stderr
    \/ replay_loop

\* the child keeps running until it exits; the two reader threads and the
\* main thread are scheduled
SpecLive ==
    /\ InitLive
    /\ [][NextLive]_vars
    /\ WF_vars(child_write \/ child_exit)
    /\ \A s \in StreamNames : WF_vars(capture_output(s))
    /\ WF_vars(child_wait)
    /\ WF_vars(join_stdout)
    /\ WF_vars(join_stderr)
    /\ WF_vars(replay_loop)


\* --------------------------------------------- --record-exit-codes parsing
\* A parameter is a string, modelled as a sequence of one-character strings.
MaxParts == 2
DecChars == <<"0", "1", "2", "3", "4", "5", "6", "7", "8", "9">>
DecVal(c) == (CHOOSE k \in 1..10 : DecChars[k] = c) - 1
IsDec(c) == \E k \in 1..10 : DecChars[k] = c

\* the decimal text of a natural number, as a user types it
RECURSIVE Dec(_)
Dec(n) == IF n < 10 THEN <<DecChars[n + 1]>> ELSE Dec(n \div 10) \o <<DecChars[(n % 10) + 1]>>

\* the parts a user can name: one code N, a range N-M, an open range N+
PartNumbers == {0, 1, 254, 255, 256}
PartSpecs ==
    {[k |-> "one", n |-> n, m |-> n] : n \in PartNumbers}
    \cup {[k |-> "range", n |-> r[1], m |-> r[2]] :
              r \in {q \in PartNumbers \X PartNumbers : q[1] <= q[2]}}
    \cup {[k |-> "from", n |-> n, m |-> n] : n \in PartNumbers}
PartText(d) ==
    IF d.k = "one" THEN Dec(d.n)
    ELSE IF d.k = "range" THEN Dec(d.n) \o <<"-">> \o Dec(d.m)
    ELSE Dec(d.n) \o <<"+">>
RECURSIVE ParamText(_, _)
ParamText(ds, sep) ==
    IF Len(ds) = 1 THEN PartText(ds[1])
    ELSE PartText(ds[1]) \o sep \o ParamText(Tail(ds), sep)

\* str::split(c)
RECURSIVE SplitOn(_, _)
SplitOn(q, c) ==
    IF \A k \in 1..Len(q) : q[k] # c THEN <<q>>
    ELSE LET k == CHOOSE k \in 1..Len(q) : q[k] = c /\ \A j \in 1..(k - 1) : q[j] # c
         IN <<SubSeq(q, 1, k - 1)>> \o SplitOn(SubSeq(q, k + 1, Len(q)), c)

\* str::trim_end_matches(c) and str::trim on blanks
RECURSIVE TrimEndMatches(_, _)
TrimEndMatches(q, c) ==
    IF q # <<>> /\ q[Len(q)] = c THEN TrimEndMatches(SubSeq(q, 1, Len(q) - 1), c) ELSE q
RECURSIVE TrimStart(_)
TrimStart(q) == IF q # <<>> /\ q[1] = " " THEN TrimStart(Tail(q)) ELSE q
Trim(q) == TrimStart(TrimEndMatches(q, " "))

\* str::parse::<i32>: an optional sign and at least one decimal digit; the
\* values of the model stay far inside the i32 range
RECURSIVE DecValue(_)
DecValue(q) == IF q = <<>> THEN 0 ELSE 10 * DecValue(SubSeq(q, 1, Len(q) - 1)) + DecVal(q[Len(q)])
ParseI32(q) ==
    LET body == IF q # <<>> /\ q[1] \in {"+", "-"} THEN Tail(q) ELSE q
    IN IF body = <<>> \/ \E k \in 1..Len(body) : ~IsDec(body[k])
       THEN [ok |-> FALSE, n |-> 0]
       ELSE [ok |-> TRUE, n |-> IF q[1] = "-" THEN 0 - DecValue(body) ELSE DecValue(body)]

\* [bool; 256]
LastCode == 255
Panicked == [tag |-> "panic", codes |-> {}]

\* a loop that leaves out the last code of the range
RangeCodes_exclusive(start, end) ==
    IF start < end /\ (start < 0 \/ end - 1 > LastCode) THEN Panicked
    ELSE [tag |-> "ok", codes |-> start..(end - 1)]

\* `for i in start..=end { exit_codes[i as usize] = true }`: an index outside
\* the array panics
RangeCodes(start, end) ==
    IF start <= end /\ (start < 0 \/ end > LastCode) THEN Panicked
    ELSE [tag |-> "ok", codes |-> start..end]

\* the body of the loop over the parts, for one part
PartCodes(part) ==
    IF part # <<>> /\ part[Len(part)] = "+"
    THEN LET start == ParseI32(TrimEndMatches(part, "+"))
         IN IF ~start.ok THEN Panicked ELSE RangeCodes(start.n, LastCode)
    ELSE IF \E k \in 1..Len(part) : part[k] = "-"
    THEN LET pieces == SplitOn(part, "-")
             start == ParseI32(pieces[1])
             end == ParseI32(pieces[2])
         IN IF ~start.ok \/ ~end.ok THEN Panicked ELSE RangeCodes(start.n, end.n)
    ELSE LET code == ParseI32(part)
         IN IF ~code.ok THEN Panicked ELSE RangeCodes(code.n, code.n)

RECURSIVE PartsCodes(_)
PartsCodes(parts) ==
    IF parts = <<>> THEN [tag |-> "ok", codes |-> {}]
    ELSE LET first == PartCodes(Trim(parts[1]))
             rest == PartsCodes(Tail(parts))
         IN IF first.tag = "panic" \/ rest.tag = "panic" THEN Panicked
            ELSE [tag |-> "ok", codes |-> first.codes \cup rest.codes]

parse_exit_codes(param) == PartsCodes(SplitOn(param, ","))

\* a command line with or without --record-exit-codes
InitExitCodes ==
    /\ now = 0
    /\ meta = [h \in Hashes |-> NoFile]
    /\ streams = {}
    /\ nextUlid = 1
    /\ inv = [p \in Procs |-> Idle]
    /\ hist = [persisted |-> {}, prev |-> NoPrev, failed |-> FALSE]
    /\ cap = CapIdle
    /\ sc = ScIdle
    /\ perm = PermIdle
    /\ rp = RpIdle
    /\ \/ opt = [OptIdle EXCEPT !.pc = "args"]
       \/ \E ds \in SeqsUpTo(PartSpecs, MaxParts) \ {<<>>}, sep \in {<<",">>, <<",", " ">>} :
             opt = [OptIdle EXCEPT !.pc = "args", !.given = TRUE, !.parts = ds,
                                   !.param = ParamText(ds, sep)]

\* record_options: the table of the parameter, or of "0" without one
record_options ==
    /\ opt.pc = "args"
    /\ opt' = [opt EXCEPT !.pc = "parsed",
                          !.table = IF opt.given THEN parse_exit_codes(opt.param)
                                    ELSE parse_exit_codes(<<"0">>)]
    /\ UNCHANGED <<now, meta, streams, nextUlid, inv, hist, cap, sc, perm, rp>>

\* RecordOptions::should_record asked about the exit code of a child
options_should_record(c) ==
    /\ opt.pc = "parsed"
    /\ opt.table.tag = "ok"
    /\ opt' = [opt EXCEPT !.pc = "asked", !.status = c,
                          !.answer = should_record(opt.table.codes, c)]
    /\ UNCHANGED <<now, meta, streams, nextUlid, inv, hist, cap, sc, perm, rp>>

NextExitCodes ==
    \/ record_options
    \/ \E c \in {0, 1, 2, 253, 254, 255} : options_should_record(c)

SpecExitCodes == InitExitCodes /\ [][NextExitCodes]_vars


\* ------------------------------------------------------ permission policy
\* A mode is the set of its permission bits.
PermBits == {"ur", "uw", "ux", "gr", "gw", "gx", "or", "ow", "ox"}
M0600 == {"ur", "uw"}
M0644 == {"ur", "uw", "gr", "or"}
M0666 == {"ur", "uw", "gr", "gw", "or", "ow"}
M0700 == {"ur", "uw", "ux"}
M0755 == {"ur", "uw", "ux", "gr", "gx", "or", "ox"}
M0777 == PermBits
\* umask 000, 002, 022, 077
Umasks == {{}, {"ow"}, {"gw", "ow"}, {"gr", "gw", "gx", "or", "ow", "ox"}}

\* a store about to be constructed on a root that exists or not; in a root
\* that exists the file about to be written may exist, with some mode, owned
\* by the user or by another one (old keeps what the file was)
InitPerm ==
    /\ now = 0
    /\ meta = [h \in Hashes |-> NoFile]
    /\ streams = {}
    /\ nextUlid = 1
    /\ inv = [p \in Procs |-> Idle]
    /\ hist = [persisted |-> {}, prev |-> NoPrev, failed |-> FALSE]
    /\ cap = CapIdle
    /\ sc = ScIdle
    /\ opt = OptIdle
    /\ rp = RpIdle
    /\ \E shared \in BOOLEAN, umask \in Umasks :
          \/ perm = [PermIdle EXCEPT !.pc = "new", !.shared = shared, !.umask = umask]
          \/ \E dm \in {M0700, M0755, M0777} :
                \/ perm = [PermIdle EXCEPT !.pc = "new", !.shared = shared, !.umask = umask,
                                           !.dir = [exists |-> TRUE, mode |-> dm]]
                \/ \E fm \in {M0600, M0644, M0666}, own \in BOOLEAN :
                      perm = [PermIdle EXCEPT !.pc = "new", !.shared = shared, !.umask = umask,
                                             !.dir = [exists |-> TRUE, mode |-> dm],
                                             !.file = [exists |-> TRUE, mode |-> fm, own |-> own],
                                             !.old = [exists |-> TRUE, mode |-> fm, own |-> own]]

\* create_cache_dir, lines 128-136: nothing is done to a root that exists;
\* DirBuilder::create makes the directory with mode 0777 less the umask
create_cache_dir_create ==
    /\ perm.pc = "new"
    /\ perm' = IF perm.dir.exists THEN [perm EXCEPT !.pc = "ready"]
               ELSE [perm EXCEPT !.pc = "mkdir", !.made = TRUE,
                                 !.dir = [exists |-> TRUE, mode |-> M0777 \ perm.umask]]
    /\ UNCHANGED <<now, meta, streams, nextUlid, inv, hist, cap, sc, opt, rp>>

\* create_cache_dir, lines 137-140: set_permissions on the new directory
create_cache_dir_set_permissions ==
    /\ perm.pc = "mkdir"
    /\ perm' = [perm EXCEPT !.pc = "ready",
                            !.dir.mode = IF perm.shared THEN M0777 ELSE M0700]
    /\ UNCHANGED <<now, meta, streams, nextUlid, inv, hist, cap, sc, opt, rp>>

\* create_file, lines 96-101: open with read, write and create: a new file
\* gets mode 0666 less the umask; a file that exists keeps its mode and must
\* grant the user reading and writing
create_file_open ==
    /\ perm.pc = "ready"
    /\ perm' =
         IF ~perm.file.exists
         THEN [perm EXCEPT !.pc = "opened",
                           !.file = [exists |-> TRUE, mode |-> M0666 \ perm.umask, own |-> TRUE]]
         ELSE IF (IF perm.file.own THEN {"ur", "uw"} ELSE {"or", "ow"}) \subseteq perm.file.mode
         THEN [perm EXCEPT !.pc = "opened"]
         ELSE [perm EXCEPT !.pc = "failed"]
    /\ UNCHANGED <<now, meta, streams, nextUlid, inv, hist, cap, sc, opt, rp>>

\* a create_file that leaves the mode the file was opened with
create_file_keep_permissions ==
    /\ perm.pc = "opened"
    /\ perm' = [perm EXCEPT !.pc = IF perm.file.own THEN "created" ELSE "failed"]
    /\ UNCHANGED <<now, meta, streams, nextUlid, inv, hist, cap, sc, opt, rp>>

\* create_file, lines 103-107: set_permissions on the path; chmod of a file
\* of another user fails and create_file returns the error
create_file_set_permissions ==
    /\ perm.pc = "opened"
    /\ perm' = IF perm.file.own
               THEN [perm EXCEPT !.pc = "created",
                                 !.file.mode = IF perm.shared THEN M0666 ELSE M0600]
               ELSE [perm EXCEPT !.pc = "failed"]
    /\ UNCHANGED <<now, meta, streams, nextUlid, inv, hist, cap, sc, opt, rp>>

NextPerm ==
    \/ create_cache_dir_create
    \/ create_cache_dir_set_permissions
    \/ create_file_open
    \/ create_file_set_permissions

SpecPerm == InitPerm /\ [][NextPerm]_vars


\* ------------------------------------------------------------ scope hashes
\* Text is a sequence of bytes. A Blake3 digest is modelled by what it was
\* computed from, so that two digests are equal exactly when their inputs
\* are: [pre |-> bytes] for compute_hash(bytes), [l |-> d1, r |-> d2] for the
\* hash of two concatenated digests, [name, content] for the Merkle tree of
\* a path.
Empty == <<>>
Txt_a == <<97>>
Txt_b == <<98>>
Txt_A == <<65>>
Txt_B == <<66>>
Txt_1 == <<49>>
Txt_2 == <<50>>
Txt_echo == <<101, 99>>
Txt_cat == <<99, 97>>
Txt_alice == <<97, 108>>
Txt_bob == <<98, 111>>
Txt_work == <<47, 119>>
Txt_v1 == <<48, 46, 49>>
Txt_v2 == <<48, 46, 50>>

\* Option<String>, Option<OsString>
None == [some |-> FALSE, v |-> Empty]
Some(v) == [some |-> TRUE, v |-> v]

\* Ord for str: bytewise, a proper prefix first
RECURSIVE BytesLess(_, _)
BytesLess(x, y) ==
    IF y = <<>> THEN FALSE
    ELSE IF x = <<>> THEN TRUE
    ELSE IF x[1] # y[1] THEN x[1] < y[1]
    ELSE BytesLess(Tail(x), Tail(y))

\* the members of a sequence, and the orders a HashSet or HashMap of them can
\* be iterated in
Range(q) == {q[k] : k \in 1..Len(q)}
RECURSIVE Orders(_)
Orders(S) ==
    IF S = {} THEN {<<>>}
    ELSE UNION {{<<x>> \o q : q \in Orders(S \ {x})} : x \in S}

\* Algorithm::Blake3.compute_hash
compute_hash(bytes) == [pre |-> bytes]

\* one level of the Merkle reduction: neighbours are hashed together; what
\* the library does with the last digest of an odd level is not fixed by this
\* repository: it is carried up as it is ("carry") or hashed with itself
RECURSIVE MerkleLevel(_, _)
MerkleLevel(hs, odd) ==
    IF hs = <<>> THEN <<>>
    ELSE IF Len(hs) = 1
    THEN IF odd = "carry" THEN hs ELSE <<[l |-> hs[1], r |-> hs[1]]>>
    ELSE <<[l |-> hs[1], r |-> hs[2]]>> \o MerkleLevel(SubSeq(hs, 3, Len(hs)), odd)

\* Hash::from(&Vec<Hash>): compute_merkle_hash is None for no digest and the
\* digest itself for one; the hash of no digest is the hash of b""
RECURSIVE HashOfHashes(_, _)
HashOfHashes(hs, odd) ==
    IF hs = <<>> THEN compute_hash(Empty)
    ELSE IF Len(hs) = 1 THEN hs[1]
    ELSE HashOfHashes(MerkleLevel(hs, odd), odd)

\* Hash::from(&String)
HashOfString(t) == compute_hash(t)

\* Hash::from(&Option<String>) and Hash::from(&Option<OsString>)
HashOfOption(o) == IF o.some THEN compute_hash(o.v) ELSE compute_hash(Empty)

\* one order of the members of a set by BytesLess
RECURSIVE Sorted(_)
Sorted(S) ==
    IF S = {} THEN <<>>
    ELSE LET x == CHOOSE x \in S : \A y \in S \ {x} : BytesLess(x, y)
         IN <<x>> \o Sorted(S \ {x})

\* a hash of the arguments that sorts them first
HashOfStrings_sorted(q, odd) ==
    LET srt == Sorted(Range(q))
    IN HashOfHashes([k \in 1..Len(srt) |-> compute_hash(srt[k])], odd)

\* Hash::from(&Vec<String>)
HashOfStrings(q, odd) == HashOfHashes([k \in 1..Len(q) |-> compute_hash(q[k])], odd)

\* a hash of the map in the order of iteration
HashOfMap_unsorted(es, odd) ==
    HashOfHashes([k \in 1..Len(es) |->
                    HashOfHashes(<<compute_hash(es[k][1]), compute_hash(es[k][2])>>, odd)], odd)

\* Hash::from(&HashMap<String, String>); es is the map in the order of its
\* iteration, a sequence of <<key, value>> with distinct keys
HashOfMap(es, odd) ==
    LET keys == Sorted({es[k][1] : k \in 1..Len(es)})
        val(key) == (CHOOSE e \in Range(es) : e[1] = key)[2]
    IN HashOfHashes([k \in 1..Len(keys) |->
                       HashOfHashes(<<compute_hash(keys[k]), compute_hash(val(keys[k]))>>, odd)], odd)

\* Hash::from(bool), by the hasher's contract: the hash of one byte, 0 or 1
HashOfBool(b) == compute_hash(IF b THEN <<1>> ELSE <<0>>)

\* Hash::from(&HashSet<String>), by the hasher's contract: the members are
\* put in the order of their values, then hashed as a sequence; q is the set
\* in the order of its iteration
HashOfSet(q, odd) == HashOfStrings(Sorted(Range(q)), odd)

\* Hash::try_from(&PathBuf): the Merkle tree of the path with names hashed;
\* an error when the path cannot be read
HashOfPath(path) ==
    IF path.content = "missing" THEN [ok |-> FALSE, hash |-> compute_hash(Empty)]
    ELSE [ok |-> TRUE, hash |-> [name |-> path.name, content |-> path.content]]

\* Hash::try_from(&Vec<PathBuf>)
HashOfPaths(paths, odd) ==
    IF \E k \in 1..Len(paths) : ~HashOfPath(paths[k]).ok
    THEN [ok |-> FALSE, hash |-> compute_hash(Empty)]
    ELSE [ok |-> TRUE,
          hash |-> HashOfHashes([k \in 1..Len(paths) |-> HashOfPath(paths[k]).hash], odd)]

\* ScopeBuilder::hash; Hash::hex is one text per digest
ScopeBuilder_hash(b, odd) ==
    LET paths == HashOfPaths(b.watch_paths, odd)
    IN IF ~paths.ok THEN [ok |-> FALSE, hex |-> compute_hash(Empty)]
       ELSE [ok |-> TRUE,
             hex |-> HashOfHashes(<<HashOfString(b.format),
                                    HashOfString(b.cmd),
                                    HashOfStrings(b.args, odd),
                                    HashOfBool(b.shared),
                                    HashOfOption(b.user),
                                    HashOfOption(b.pwd),
                                    HashOfSet(b.watch_scope, odd),
                                    HashOfMap(b.watch_env, odd),
                                    paths.hash>>, odd)]

\* ScopeBuilder::new
ScopeBuilder_new(format) ==
    [format |-> format, cmd |-> Empty, args |-> <<>>, shared |-> FALSE,
     user |-> None, pwd |-> None, watch_paths |-> <<>>, watch_scope |-> <<>>,
     watch_env |-> <<>>]

\* the values the builder calls are made with
Path(content) == [name |-> Txt_work, content |-> content]
CmdValues == {Txt_echo, Txt_cat}
ArgsValues == {<<>>, <<Empty>>, <<Txt_a>>, <<Txt_a, Txt_b>>, <<Txt_b, Txt_a>>}
UserValues == {Empty, Txt_alice, Txt_bob}
PwdValues == {Empty, Txt_work}
PathsValues == {<<>>, <<Path("c1")>>, <<Path("c2")>>, <<Path("missing")>>}
TagsValues == {<<>>, <<Txt_a>>, <<Txt_a, Txt_b>>, <<Txt_b, Txt_a>>}
EnvValues ==
    {<<>>, <<<<Txt_A, Txt_1>>>>, <<<<Txt_A, Txt_1>>, <<Txt_B, Txt_2>>>>,
     <<<<Txt_B, Txt_2>>, <<Txt_A, Txt_1>>>>, <<<<Txt_A, Txt_2>>, <<Txt_B, Txt_2>>>>}

\* HashMap::from_iter: of two pairs with one key the later one stays
FromIter(pairs) ==
    {pairs[k] : k \in {i \in 1..Len(pairs) :
                         \A j \in (i + 1)..Len(pairs) : pairs[j][1] # pairs[i][1]}}

\* two builders after the same calls, made by one version of the program or
\* by two
BaseScopes ==
    {[ScopeBuilder_new(Txt_v1) EXCEPT !.cmd = Txt_echo, !.args = args, !.shared = su[1],
                                      !.user = su[2], !.pwd = pwd, !.watch_paths = paths,
                                      !.watch_scope = tags, !.watch_env = env] :
        args \in {<<>>, <<Txt_a, Txt_b>>},
        su \in {<<FALSE, None>>, <<FALSE, Some(Txt_alice)>>, <<TRUE, None>>},
        pwd \in {None, Some(Txt_work)},
        paths \in {<<>>, <<Path("c1")>>},
        tags \in {<<>>, <<Txt_a, Txt_b>>},
        env \in {<<>>, <<<<Txt_A, Txt_1>>, <<Txt_B, Txt_2>>>>}}

InitScope ==
    /\ now = 0
    /\ meta = [h \in Hashes |-> NoFile]
    /\ streams = {}
    /\ nextUlid = 1
    /\ inv = [p \in Procs |-> Idle]
    /\ hist = [persisted |-> {}, prev |-> NoPrev, failed |-> FALSE]
    /\ cap = CapIdle
    /\ perm = PermIdle
    /\ opt = OptIdle
    /\ rp = RpIdle
    /\ \E a \in BaseScopes, odd \in {"carry", "dup"} :
          \/ sc = [ScIdle EXCEPT !.pc = "building", !.odd = odd, !.a = a, !.b = a,
                                 !.who = [a |-> Txt_alice, b |-> Txt_alice]]
          \/ sc = [ScIdle EXCEPT !.pc = "building", !.odd = odd, !.a = a,
                                 !.b = [a EXCEPT !.format = Txt_v2], !.changed = "format",
                                 !.who = [a |-> Txt_alice, b |-> Txt_alice]]

\* one more call on the second builder, of the field it already differs in
\* when it differs
Call(field) == sc.pc = "building" /\ sc.changed \in {"none", field}

scope_cmd(v) ==
    /\ Call("cmd")
    /\ sc' = [sc EXCEPT !.changed = "cmd", !.b.cmd = v]
    /\ UNCHANGED <<now, meta, streams, nextUlid, inv, hist, cap, perm, opt, rp>>

scope_args(v) ==
    /\ Call("args")
    /\ sc' = [sc EXCEPT !.changed = "args", !.b.args = v]
    /\ UNCHANGED <<now, meta, streams, nextUlid, inv, hist, cap, perm, opt, rp>>

scope_shared(v) ==
    /\ Call("shared")
    /\ sc' = [sc EXCEPT !.changed = "shared", !.b.shared = v]
    /\ UNCHANGED <<now, meta, streams, nextUlid, inv, hist, cap, perm, opt, rp>>

scope_user(v) ==
    /\ Call("user")
    /\ sc' = [sc EXCEPT !.changed = "user", !.b.user = Some(v)]
    /\ UNCHANGED <<now, meta, streams, nextUlid, inv, hist, cap, perm, opt, rp>>

scope_pwd(v) ==
    /\ Call("pwd")
    /\ sc' = [sc EXCEPT !.changed = "pwd", !.b.pwd = Some(v)]
    /\ UNCHANGED <<now, meta, streams, nextUlid, inv, hist, cap, perm, opt, rp>>

scope_watch_paths(v) ==
    /\ Call("watch_paths")
    /\ sc' = [sc EXCEPT !.changed = "watch_paths", !.b.watch_paths = v]
    /\ UNCHANGED <<now, meta, streams, nextUlid, inv, hist, cap, perm, opt, rp>>

\* into_watch_scope collects the Vec into a HashSet, which is iterated in an
\* order of its own
scope_watch_scope(v) ==
    /\ Call("watch_scope")
    /\ \E q \in Orders(Range(v)) :
          sc' = [sc EXCEPT !.changed = "watch_scope", !.b.watch_scope = q]
    /\ UNCHANGED <<now, meta, streams, nextUlid, inv, hist, cap, perm, opt, rp>>

\* the HashMap is iterated in an order of its own
scope_watch_env(v) ==
    /\ Call("watch_env")
    /\ \E q \in Orders(FromIter(v)) :
          sc' = [sc EXCEPT !.changed = "watch_env", !.b.watch_env = q]
    /\ UNCHANGED <<now, meta, streams, nextUlid, inv, hist, cap, perm, opt, rp>>

\* a command that puts the user into the scope of a shared cache too
main_command_user_always(share_cache, who) ==
    /\ Call("share-cache")
    /\ sc' = [sc EXCEPT !.changed = "share-cache", !.who.b = who,
                        !.b.shared = share_cache, !.b.user = Some(who)]
    /\ UNCHANGED <<now, meta, streams, nextUlid, inv, hist, cap, perm, opt, rp>>

\* main.rs command, lines 361-365, run by user `who` on a builder that has
\* neither shared nor user set: shared(true) under --share-cache,
\* user(whoami::username()) without it
main_command_user(share_cache, who) ==
    /\ Call("share-cache")
    /\ sc' = [sc EXCEPT !.changed = "share-cache", !.who.b = who,
                        !.b.shared = share_cache,
                        !.b.user = IF share_cache THEN None ELSE Some(who)]
    /\ UNCHANGED <<now, meta, streams, nextUlid, inv, hist, cap, perm, opt, rp>>

\* ScopeBuilder::build on both builders
scope_build ==
    /\ sc.pc = "building"
    /\ LET ha == ScopeBuilder_hash(sc.a, sc.odd)
           hb == ScopeBuilder_hash(sc.b, sc.odd)
       IN sc' = [sc EXCEPT !.pc = IF ha.ok /\ hb.ok THEN "built" ELSE "failed",
                           !.ha = ha, !.hb = hb]
    /\ UNCHANGED <<now, meta, streams, nextUlid, inv, hist, cap, perm, opt, rp>>

NextScope ==
    \/ \E v \in CmdValues : scope_cmd(v)
    \/ \E v \in ArgsValues : scope_args(v)
    \/ \E v \in BOOLEAN : scope_shared(v)
    \/ \E v \in UserValues : scope_user(v)
    \/ \E v \in PwdValues : scope_pwd(v)
    \/ \E v \in PathsValues : scope_watch_paths(v)
    \/ \E v \in TagsValues : scope_watch_scope(v)
    \/ \E v \in EnvValues : scope_watch_env(v)
    \/ \E share_cache \in BOOLEAN, who \in {Txt_alice, Txt_bob} :
          main_command_user(share_cache, who)
    \/ scope_build

SpecScope == InitScope /\ [][NextScope]_vars

\* ------------------------------------------------------------- the claims
IsDone(p) == inv[p].pc = "done"
Recorded(p) == inv[p].op \in {"run", "force"} /\ inv[p].status # -1
StreamsOf(h, e) == {OutFile(h, e.stdout), ErrFile(h, e.stderr)}

\* C1: a finished run whose lookup found the entry Fresh replayed it, never
\* called the child and exits with the status recorded on disk; a finished
\* run whose lookup found the entry Missing, Stale or Expired replayed
\* nothing, called Command::run exactly once and, when the child ran, exits
\* with the child's status.
C1_RunDispatch ==
    \A p \in Procs : IsDone(p) /\ inv[p].op = "run" =>
        /\ inv[p].verdict = "Fresh" =>
              /\ inv[p].replayed
              /\ inv[p].spawns = 0
              /\ DiskCache_read(inv[p].hash).tag = "some"
              /\ inv[p].exit = ExitOk(DiskCache_read(inv[p].hash).entry.status)
        /\ inv[p].verdict \in {"Missing", "TooOld", "Expired"} =>
              /\ ~inv[p].replayed
              /\ inv[p].spawns = 1
              /\ inv[p].status # -1 => inv[p].exit = ExitOk(inv[p].status)
              /\ inv[p].status = -1 => inv[p].exit = ExitErr

\* a run that replayed an entry recorded with status 3
C1_Witness ==
    \E p \in Procs : /\ IsDone(p) /\ inv[p].op = "run"
                     /\ inv[p].verdict = "Fresh" /\ inv[p].replayed
                     /\ inv[p].exit = ExitOk(3)

\* C2: once a run or force has persisted an entry with no cache_for, a lookup
\* of the hash with no look-back finds that entry with both stream files, at
\* the time the record finished and at every later time before the next
\* operation on the hash.
C2_PersistedEntryReplays ==
    \A p \in Procs :
        IsDone(p) /\ Recorded(p) /\ inv[p].wrote /\ inv[p].cache_for = NoneT =>
            LET r == find(inv[p].hash, NoneT, now) IN
            /\ r.tag = "some"
            /\ r.entry = NewEntry(inv[p])
            /\ StreamsOf(inv[p].hash, r.entry) \subseteq streams

\* C3: a record (with no cache_for) writes the metadata iff the child's status
\* is in record_exit_codes; run returns the child's status either way; a test
\* with no look-back right after it exits 0 when the status was in the set,
\* and exits 1 when it was not and the run had found the entry Missing or
\* Expired.
C3_RecordIffShouldRecord ==
    \A p \in Procs : IsDone(p) /\ Recorded(p) /\ inv[p].cache_for = NoneT =>
        /\ inv[p].wrote <=> should_record(inv[p].codes, inv[p].status)
        /\ inv[p].op = "run" => inv[p].exit = ExitOk(inv[p].status)
        /\ should_record(inv[p].codes, inv[p].status) =>
              deja_test(inv[p].hash, NoneT, now) = ExitOk(0)
        /\ /\ ~should_record(inv[p].codes, inv[p].status)
           /\ inv[p].op = "run"
           /\ inv[p].verdict \in {"Missing", "Expired"}
           => deja_test(inv[p].hash, NoneT, now) = ExitOk(1)

\* C4: when record ran a child whose status is not in record_exit_codes, the
\* cache root holds exactly the files it held before the call, with the same
\* contents, and the two capture sinks of this recording are gone.
C4_DiscardLeavesRootUnchanged ==
    \A p \in Procs :
        IsDone(p) /\ Recorded(p) /\ ~should_record(inv[p].codes, inv[p].status) =>
            /\ meta = inv[p].snap_meta
            /\ streams = inv[p].snap_streams
            /\ OutFile(inv[p].hash, inv[p].ulid) \notin streams
            /\ ErrFile(inv[p].hash, inv[p].ulid) \notin streams

\* a discarded recording on a hash that already held a readable entry
C4_Witness ==
    \E p \in Procs :
        /\ IsDone(p) /\ Recorded(p)
        /\ inv[p].status = 3 /\ inv[p].codes = {0}
        /\ DiskCache_read(inv[p].hash).tag = "some"
        /\ StreamsOf(inv[p].hash, DiskCache_read(inv[p].hash).entry) \subseteq streams

\* C5: at every step of a record, the entry the metadata file deserializes
\* to references two stream files that exist.
C5_NoDanglingMetadataDuringRecord ==
    \A p \in Procs :
        inv[p].op \in {"run", "force"} /\ inv[p].pc \notin {"idle", "replay"} =>
            LET r == DiskCache_read(inv[p].hash) IN
            r.tag = "some" => StreamsOf(inv[p].hash, r.entry) \subseteq streams

\* C6: a lookup made while the other invocation is a record of the same hash
\* (or while nothing else runs) reads no undeserializable metadata, and the
\* entry it reads is the complete previous entry or the complete new one.
C6_ReaderSeesWholeEntry ==
    \A q \in Procs, w \in Procs :
        /\ q # w
        /\ inv[q].op \in {"read", "test"}
        /\ inv[q].pc \in {"done", "replay"}
        /\ inv[w].op \in {"none", "run", "force"}
        => /\ inv[q].verdict # "Err"
           /\ inv[q].seen # NoEntry =>
                 \/ \E cf \in CacheFors : inv[q].seen = SeedEntry(cf)
                 \/ inv[w].status # -1 /\ inv[q].seen = NewEntry(inv[w])

\* C7: when two invocations have both recorded the same hash with a status
\* to record, neither ended in an error or a panic, the metadata file
\* deserializes to the entry of one of them, and both stream files that
\* entry references exist.
C7_ConcurrentRecordsBothSucceed ==
    \A p \in Procs, q \in Procs :
        /\ p # q
        /\ IsDone(p) /\ Recorded(p) /\ should_record(inv[p].codes, inv[p].status)
        /\ IsDone(q) /\ Recorded(q) /\ should_record(inv[q].codes, inv[q].status)
        /\ inv[p].hash = inv[q].hash
        => /\ inv[p].exit.kind = "ok" /\ inv[q].exit.kind = "ok"
           /\ LET r == DiskCache_read(inv[p].hash) IN
              /\ r.tag = "some"
              /\ r.entry \in {NewEntry(inv[p]), NewEntry(inv[q])}
              /\ StreamsOf(inv[p].hash, r.entry) \subseteq streams

\* C8: remove exits 0 iff the metadata file existed, 1 otherwise; after a
\* remove that exited 0 neither the metadata file nor the two stream files
\* the removed entry referenced exist.
C8_RemoveDeletesEntryAndStreams ==
    \A p \in Procs : IsDone(p) /\ inv[p].op = "remove" =>
        /\ inv[p].exit \in {ExitOk(0), ExitOk(1)}
        /\ inv[p].exit = ExitOk(0) =>
              /\ ~meta[inv[p].hash].exists
              /\ inv[p].seen # NoEntry =>
                    StreamsOf(inv[p].hash, inv[p].seen) \cap streams = {}
        /\ inv[p].exit = ExitOk(1) => ~meta[inv[p].hash].exists

\* C9: for a test that found an entry E at time `at`, the verdict is Expired
\* exactly when E.expires is present and E.expires < at.
C9_ExpiredIffStrictlyPast ==
    \A p \in Procs :
        IsDone(p) /\ inv[p].op = "test" /\ inv[p].verdict \in {"Fresh", "TooOld", "Expired"} =>
            (inv[p].verdict = "Expired"
                <=> (inv[p].seen.expires # NoneT /\ inv[p].seen.expires < inv[p].at))

\* C10: for a test that found an entry E that is not Expired, the verdict is
\* Stale exactly when max_age is present and E.created + max_age < at, and
\* Fresh otherwise.
C10_StaleIffStrictlyOlder ==
    \A p \in Procs :
        IsDone(p) /\ inv[p].op = "test" /\ inv[p].verdict \in {"Fresh", "TooOld"} =>
            (inv[p].verdict = "TooOld"
                <=> (inv[p].look_back # NoneT
                     /\ inv[p].seen.created + inv[p].look_back < inv[p].at))

\* C11: at every time and for every hash and look-back, find returns an entry
\* iff the four-way classification is Fresh, and it is the same entry; test
\* exits 0 exactly where find returns an entry (where run and read replay) and
\* exits 1 exactly where find returns None (where run executes and read
\* returns the miss code); a finished read returned its miss code without
\* replaying exactly when the classification was not Fresh.
C11_FindIffFresh ==
    /\ \A h \in Hashes, lb \in LookBacks :
          LET f == find(h, lb, now)
              v == find_any_result_from_cache(h, lb, now)
          IN /\ f.tag = "some" <=> v.tag = "Fresh"
             /\ f.tag = "some" => f.entry = v.entry
             /\ deja_test(h, lb, now) = ExitOk(0) <=> f.tag = "some"
             /\ deja_test(h, lb, now) = ExitOk(1) <=> f.tag = "none"
    /\ \A p \in Procs : IsDone(p) /\ inv[p].op = "read" /\ inv[p].exit.kind = "ok" =>
          (inv[p].verdict = "Fresh" <=> inv[p].replayed)

\* a test with a look-back exited 0 on an entry that a shorter look-back
\* classifies as Stale
C11_Witness ==
    \E p \in Procs, lb \in LookBacks :
        /\ IsDone(p) /\ inv[p].op = "test" /\ inv[p].exit = ExitOk(0)
        /\ inv[p].look_back # NoneT /\ inv[p].at = now
        /\ find(inv[p].hash, inv[p].look_back, now).tag = "some"
        /\ find_any_result_from_cache(inv[p].hash, lb, now).tag = "TooOld"

\* C12: a finished read never called Command::run; when its lookup found the
\* entry Fresh it replayed it and exits with the status recorded on disk; when
\* the lookup found the entry Missing, Stale or Expired it replayed nothing
\* and exits with the configured cache-miss exit code, which lies in 1..255.
C12_ReadNeverExecutes ==
    \A p \in Procs : inv[p].op = "read" =>
        /\ inv[p].spawns = 0
        /\ inv[p].pc \in {"replay", "done"}
        /\ inv[p].miss \in 1..255
        /\ IsDone(p) /\ inv[p].verdict = "Fresh" =>
              /\ inv[p].replayed
              /\ DiskCache_read(inv[p].hash).tag = "some"
              /\ inv[p].exit = ExitOk(DiskCache_read(inv[p].hash).entry.status)
        /\ IsDone(p) /\ inv[p].verdict \in {"Missing", "TooOld", "Expired"} =>
              /\ ~inv[p].replayed
              /\ inv[p].exit = ExitOk(inv[p].miss)

\* a read with miss code 2 on an expired entry
C12_Witness ==
    \E p \in Procs : /\ IsDone(p) /\ inv[p].op = "read"
                     /\ inv[p].verdict = "Expired"
                     /\ inv[p].exit = ExitOk(2)

\* C13: a finished force called Command::run exactly once and replayed
\* nothing, whatever the store held; it exits 0 when the child ran and its
\* entry was persisted or discarded, whatever the child's status, and with
\* the tool's error code only when the child could not be spawned or the
\* cache could not be read.
C13_ForceAlwaysExecutesReturnsZero ==
    \A p \in Procs : IsDone(p) /\ inv[p].op = "force" =>
        /\ inv[p].spawns = 1
        /\ ~inv[p].replayed
        /\ inv[p].wrote => inv[p].exit = ExitOk(0)
        /\ inv[p].status # -1 /\ ~should_record(inv[p].codes, inv[p].status) =>
              inv[p].exit = ExitOk(0)
        /\ inv[p].exit # ExitOk(0) =>
              /\ inv[p].exit = ExitErr
              /\ inv[p].status = -1 \/ DiskCache_read(inv[p].hash).tag = "err"

\* a force whose child exited 3 (not recorded) on a hash whose entry is Fresh
C13_Witness ==
    \E p \in Procs :
        /\ IsDone(p) /\ inv[p].op = "force" /\ inv[p].exit = ExitOk(0)
        /\ inv[p].status = 3 /\ ~inv[p].wrote
        /\ find(inv[p].hash, NoneT, inv[p].rnow).tag = "some"

\* C14: a run, read or force that ended without a tool error exits with the
\* child's exit code: the recorded one when it replayed an entry, the
\* observed one when it persisted an entry (and, for run, also when the
\* entry was discarded).
C14_ExitIsChildCode ==
    \A p \in Procs :
        IsDone(p) /\ inv[p].op \in {"run", "read", "force"} /\ inv[p].exit.kind = "ok" =>
            /\ inv[p].replayed => inv[p].exit.code = inv[p].seen.status
            /\ inv[p].wrote => inv[p].exit.code = inv[p].status
            /\ inv[p].op = "run" /\ inv[p].status # -1 => inv[p].exit.code = inv[p].status

\* C15: between invocations, a hash whose metadata no record has written
\* since the root was created or since its last successful remove is
\* classified Missing under every look-back: find returns None, test exits 1,
\* explain exits 0 reporting Missing; a finished test, explain, read or run on
\* such a hash saw Missing, and the read returned its miss code and the run
\* called the child.
C15_NeverRecordedIsMissing ==
    /\ (\A p \in Procs : inv[p].pc = "idle") =>
          \A h \in Hashes \ hist.persisted, lb \in LookBacks :
              /\ find_any_result_from_cache(h, lb, now).tag = "Missing"
              /\ find(h, lb, now).tag = "none"
              /\ deja_test(h, lb, now) = ExitOk(1)
              /\ deja_explain(h, lb, now) = ExitOk(0)
    /\ \A p \in Procs :
          /\ IsDone(p) /\ inv[p].hash \notin hist.persisted
          /\ inv[p].op \in {"test", "explain", "read", "run"}
          => /\ inv[p].verdict = "Missing"
             /\ inv[p].op = "test" => inv[p].exit = ExitOk(1)
             /\ inv[p].op = "explain" => inv[p].exit = ExitOk(0)
             /\ inv[p].op = "read" => inv[p].exit = ExitOk(inv[p].miss)
             /\ inv[p].op = "run" => inv[p].spawns = 1 /\ ~inv[p].replayed

\* a test that exited 1 on a hash that was recorded and then removed
C15_Witness ==
    \E p \in Procs :
        /\ IsDone(p) /\ inv[p].op = "test" /\ inv[p].exit = ExitOk(1)
        /\ inv[p].hash \notin hist.persisted
        /\ StreamFilesOf(inv[p].hash) # {}

\* C16: every step of a read, test, explain or hash, and every step of a run
\* whose lookup found the entry Fresh, leaves all metadata files and the set
\* of stream files as they were; such an invocation never calls Command::run,
\* and test, explain and hash replay nothing.
C16_QueriesLeaveRootUnchanged ==
    [][\A p \in Procs :
          /\ inv'[p] # inv[p]
          /\ \/ inv'[p].op \in {"read", "test", "explain", "hash"}
             \/ inv'[p].op = "run" /\ inv'[p].verdict = "Fresh"
          => /\ meta' = meta
             /\ streams' = streams
             /\ inv'[p].spawns = 0
             /\ inv'[p].op \in {"test", "explain", "hash"} => ~inv'[p].replayed]_vars

\* a read replayed an entry that expires, and the entry on disk is still the
\* one it saw
C16_Witness ==
    \E p \in Procs :
        /\ IsDone(p) /\ inv[p].op = "read" /\ inv[p].replayed
        /\ inv[p].seen.expires # NoneT
        /\ DiskCache_read(inv[p].hash).tag = "some"
        /\ DiskCache_read(inv[p].hash).entry = inv[p].seen

IsOut(x) == x[1] = "out"
IsErr(x) == x[1] = "err"
Records(q) == [i \in 1..Len(q) |-> <<q[i][2], q[i][3]>>]
NonDecreasing(q) == \A i, j \in 1..Len(q) : i < j => q[i][1] <= q[j][1]

\* C17: when the timestamps of each of the two stream files are
\* non-decreasing, replay prints every record of the stdout file to stdout
\* and every record of the stderr file to stderr, each once and in the order
\* of its file; the timestamps of the printed records never decrease; of a
\* stdout and a stderr record with equal timestamps the stderr record is
\* printed first; and captures at t_o < t_e < t_o' < t_e' are printed in
\* that order.
C17_ReplayMergesByTimestamp ==
    LET em == cap.emitted
        o == cap.sink["out"]
        e == cap.sink["err"]
    IN cap.pc = "replayed" /\ NonDecreasing(o) /\ NonDecreasing(e) =>
        /\ Len(em) = Len(o) + Len(e)
        /\ Records(SelectSeq(em, IsOut)) = o
        /\ Records(SelectSeq(em, IsErr)) = e
        /\ \A i, j \in 1..Len(em) : i < j => em[i][2] <= em[j][2]
        /\ \A i, j \in 1..Len(em) :
              i < j /\ em[i][2] = em[j][2] /\ em[i][1] # em[j][1] => em[i][1] = "err"
        /\ /\ Len(o) = 2 /\ Len(e) = 2
           /\ o[1][1] < e[1][1] /\ e[1][1] < o[2][1] /\ o[2][1] < e[2][1]
           => <<em[1][1], em[2][1], em[3][1], em[4][1]>> = <<"out", "err", "out", "err">>

\* a replay of two stdout and two stderr records captured at
\* t_o < t_e < t_o' < t_e'
C17_Witness ==
    /\ cap.pc = "replayed"
    /\ Len(cap.sink["out"]) = 2 /\ Len(cap.sink["err"]) = 2
    /\ cap.sink["out"][1][1] < cap.sink["err"][1][1]
    /\ cap.sink["err"][1][1] < cap.sink["out"][2][1]
    /\ cap.sink["out"][2][1] < cap.sink["err"][2][1]
    /\ Len(cap.emitted) = 4

\* C18: after a record that persisted entry E, DiskCache::read of the hash
\* returns an entry with E's status, created and expires whose two stream
\* files are the ones this recording captured into, and replaying it returns
\* E's status.
C18_StoreRoundTrip ==
    \A p \in Procs : IsDone(p) /\ Recorded(p) /\ inv[p].wrote =>
        LET r == DiskCache_read(inv[p].hash) IN
        /\ r.tag = "some"
        /\ r.entry.status = inv[p].status
        /\ r.entry.created = inv[p].rnow
        /\ r.entry.expires = NewEntry(inv[p]).expires
        /\ r.entry.stdout = inv[p].ulid /\ r.entry.stderr = inv[p].ulid
        /\ StreamsOf(inv[p].hash, r.entry) \subseteq streams

\* the lines the child wrote to stream s, and the lines the sink of s holds
WrittenIds(s) == {k \in 1..cap.pos : cap.script[k].s = s}
SinkIds(s) == {cap.sink[s][i][2] : i \in 1..Len(cap.sink[s])}

\* C20: when the metadata file is written, both reader threads have reached
\* end of file on their pipe and have been joined, and each stream file holds
\* every line the child wrote to that stream.
C20_StreamsCompleteAtMetadataWrite ==
    cap.pc \in {"written", "replayed"} =>
        \A s \in StreamNames :
            /\ cap.rd[s] = "eof"
            /\ SinkIds(s) = WrittenIds(s)

\* C21: an invocation never ends in a panic: it exits with the status it
\* reports or, on a failure of the tool (spawn error, unreadable metadata, a
\* stream file missing when the entry is replayed), with exit code 1.
C21_FailuresExitOne ==
    \A p \in Procs : IsDone(p) =>
        /\ inv[p].exit.kind \in {"ok", "err"}
        /\ inv[p].exit.kind = "err" => inv[p].exit.code = 1

\* C28: between invocations, when no invocation so far has failed, every
\* existing metadata file deserializes to an entry whose two stream files
\* exist, and every stream file in the cache root is one of those.
C28_StreamsOwnedByEntries ==
    (\A p \in Procs : inv[p].pc = "idle") /\ ~hist.failed =>
        /\ \A h \in Hashes : meta[h].exists =>
              /\ DiskCache_read(h).tag = "some"
              /\ StreamsOf(h, DiskCache_read(h).entry) \subseteq streams
        /\ \A f \in streams :
              /\ meta[f[1]].exists
              /\ DiskCache_read(f[1]).tag = "some"
              /\ f \in StreamsOf(f[1], DiskCache_read(f[1]).entry)

\* C30: DiskCache::read returns None exactly when the hash has no metadata
\* file and an error when the file exists and does not deserialize; a run,
\* read or test that met such a file ends with the tool's error, has not
\* called the child, has replayed nothing, and the file is as it was.
C30_CorruptEntryIsAnError ==
    /\ \A h \in Hashes :
          /\ DiskCache_read(h).tag = "none" <=> ~meta[h].exists
          /\ meta[h].exists /\ Deserialize(meta[h].bytes).tag = "err"
                => find(h, NoneT, now).tag = "err"
    /\ \A p \in Procs :
          /\ IsDone(p) /\ inv[p].op \in {"run", "read", "test"}
          /\ inv[p].verdict = "Err"
          => /\ inv[p].exit = ExitErr
             /\ inv[p].spawns = 0
             /\ ~inv[p].replayed /\ ~inv[p].wrote
             /\ DiskCache_read(inv[p].hash).tag = "err"

\* a run on a hash whose metadata file does not deserialize
C30_Witness ==
    \E p \in Procs :
        /\ IsDone(p) /\ inv[p].op = "run" /\ inv[p].exit = ExitErr
        /\ inv[p].verdict = "Err"
        /\ meta[inv[p].hash].exists
        /\ DiskCache_read(inv[p].hash).tag = "err"

\* C29: the sink of a stream holds the lines its reader wrote to the live
\* output, in the same order and with non-decreasing timestamps, and once
\* the child has exited and the reader has ended, these are all the lines
\* the child wrote on that stream, in the order written.
C29_SinkHoldsWholeStream ==
    \A s \in StreamNames :
        /\ [k \in 1..Len(cap.sink[s]) |-> cap.sink[s][k][2]] = cap.term[s]
        /\ NonDecreasing(cap.sink[s])
        /\ \A i, j \in 1..Len(cap.sink[s]) :
              i < j => cap.sink[s][i][2] < cap.sink[s][j][2]
        /\ cap.child = "exited" /\ cap.rd[s] \in {"eof", "failed"}
              => SinkIds(s) = WrittenIds(s)

\* the codes a list of parts names
NamedCodes(ds) ==
    UNION {IF ds[k].k = "one" THEN {ds[k].n}
           ELSE IF ds[k].k = "range" THEN ds[k].n..ds[k].m
           ELSE ds[k].n..LastCode : k \in 1..Len(ds)}
InRange(ds) == \A k \in 1..Len(ds) : 0 <= ds[k].n /\ ds[k].n <= ds[k].m /\ ds[k].m <= LastCode

\* C27: the table parsed from parts N, N-M and N+ with 0 <= N <= M <= 255
\* holds exactly the codes the parts name, and without the parameter exactly
\* code 0; should_record answers by that table.
C27_ExitCodeTable ==
    opt.pc \in {"parsed", "asked"} =>
        /\ opt.given /\ InRange(opt.parts) =>
              opt.table = [tag |-> "ok", codes |-> NamedCodes(opt.parts)]
        /\ ~opt.given => opt.table = [tag |-> "ok", codes |-> {0}]
        /\ opt.pc = "asked" /\ opt.given /\ InRange(opt.parts) =>
              (opt.answer <=> opt.status \in NamedCodes(opt.parts))

\* the table of "0-1, 254+" was asked about code 255
C27_Witness ==
    /\ opt.pc = "asked" /\ opt.given
    /\ opt.parts = <<[k |-> "range", n |-> 0, m |-> 1], [k |-> "from", n |-> 254, m |-> 254]>>
    /\ opt.param = <<"0", "-", "1", ",", " ", "2", "5", "4", "+">>
    /\ opt.table.codes = {0, 1, 254, 255}
    /\ opt.status = 255 /\ opt.answer

\* C26: a file create_file has returned has mode 0600 in a private store and
\* 0666 in a shared one, whatever the umask and whatever mode the file had
\* before; a root directory the store has created has, once create_cache_dir
\* has returned, mode 0700 in a private store and 0777 in a shared one.
C26_PermissionPolicy ==
    /\ perm.pc = "created" =>
          perm.file.mode = (IF perm.shared THEN M0666 ELSE M0600)
    /\ perm.made /\ perm.pc \in {"ready", "opened", "created", "failed"} =>
          perm.dir.mode = (IF perm.shared THEN M0777 ELSE M0700)

\* a private store under umask 022 has rewritten a file that had mode 0644
C26_Witness ==
    /\ perm.pc = "created" /\ ~perm.shared /\ perm.umask = {"gw", "ow"}
    /\ perm.old.exists /\ perm.old.mode = M0644
    /\ perm.file.mode = M0600

\* the fields of a builder as values: watch_scope as a set, watch_env as a
\* set of pairs
Fields(b) == [b EXCEPT !.watch_scope = Range(@), !.watch_env = Range(@)]
FieldNames == {"format", "cmd", "args", "shared", "user", "pwd", "watch_paths",
               "watch_scope", "watch_env"}
Differing(x, y) == {f \in FieldNames : Fields(x)[f] # Fields(y)[f]}

\* C22: two scopes with equal field values, watch_scope taken as a set and
\* watch_env as a mapping, have the same hex digest, in whatever order the
\* members of the two collections were inserted or are iterated.
C22_HashIsFunctionOfFields ==
    sc.pc = "built" /\ Differing(sc.a, sc.b) = {} => sc.ha.hex = sc.hb.hex

\* two scopes with the same two tags and the same two variables, iterated in
\* different orders, have been built
C22_Witness ==
    /\ sc.pc = "built" /\ Differing(sc.a, sc.b) = {}
    /\ sc.a.watch_env = <<<<Txt_A, Txt_1>>, <<Txt_B, Txt_2>>>>
    /\ sc.b.watch_env = <<<<Txt_B, Txt_2>>, <<Txt_A, Txt_1>>>>
    /\ sc.a.watch_scope = <<Txt_a, Txt_b>>
    /\ sc.ha.hex = sc.hb.hex

\* C23: two scopes that differ in exactly one field have different hashes.
C23_OneFieldChangesHash ==
    sc.pc = "built" /\ Cardinality(Differing(sc.a, sc.b)) = 1 => sc.ha.hex # sc.hb.hex

\* C24: two scopes that differ only in the order of two distinct non-empty
\* arguments have different hashes.
C24_ArgumentOrderMatters ==
    /\ sc.pc = "built" /\ Differing(sc.a, sc.b) = {"args"}
    /\ Len(sc.a.args) = 2 /\ sc.a.args[1] # sc.a.args[2]
    /\ Empty \notin Range(sc.a.args)
    /\ sc.b.args = <<sc.a.args[2], sc.a.args[1]>>
    => sc.ha.hex # sc.hb.hex

\* the scopes of `a b` and of `b a` have been built
C24_Witness ==
    /\ sc.pc = "built" /\ Differing(sc.a, sc.b) = {"args"}
    /\ sc.a.args = <<Txt_a, Txt_b>> /\ sc.b.args = <<Txt_b, Txt_a>>
    /\ sc.ha.hex # sc.hb.hex

\* a builder as main's command leaves it
AsCommand(b, who) ==
    \/ b.shared /\ b.user = None
    \/ ~b.shared /\ b.user = Some(who)

\* C25: of two scopes that main's command has built for two different
\* users with the same setting of --share-cache and that are otherwise
\* equal, the hashes differ without --share-cache and are equal with it; a scope with shared = true never has
\* the hash of the otherwise equal scope with shared = false.
C25_SharedCacheBoundary ==
    /\ /\ sc.pc = "built" /\ sc.who.a # sc.who.b
       /\ AsCommand(sc.a, sc.who.a) /\ sc.changed = "share-cache"
       /\ Differing(sc.a, sc.b) \subseteq {"user"}
       => /\ ~sc.a.shared => sc.ha.hex # sc.hb.hex
          /\ sc.a.shared => sc.ha.hex = sc.hb.hex
    /\ sc.pc = "built" /\ Differing(sc.a, sc.b) = {"shared"} => sc.ha.hex # sc.hb.hex

\* alice and bob have built the same command with --share-cache
C25_Witness ==
    /\ sc.pc = "built" /\ sc.who.a = Txt_alice /\ sc.who.b = Txt_bob
    /\ sc.a.shared /\ sc.b.shared /\ sc.changed = "share-cache"
    /\ sc.a.user = None /\ sc.b.user = None
    /\ sc.ha.hex = sc.hb.hex

\* C31: when the spawn of the child has failed, record has returned an error
\* and the cache root holds the files it held when record was called: the
\* same metadata files with the same bytes and the same stream files.
C31_SpawnFailureLeavesRootUnchanged ==
    \A p \in Procs :
        IsDone(p) /\ inv[p].op \in {"run", "force"} /\ inv[p].spawns = 1 /\ inv[p].status = -1 =>
            /\ inv[p].exit = ExitErr
            /\ meta = inv[p].snap_meta
            /\ streams = inv[p].snap_streams

\* C32: after a record has written its metadata into a file that existed
\* before (an overwrite), the file holds the serialized new entry and nothing
\* else, and DiskCache::read returns exactly the new entry.
C32_OverwriteLeavesOnlyNewEntry ==
    \A p \in Procs :
        IsDone(p) /\ Recorded(p) /\ inv[p].wrote /\ inv[p].fino # inv[p].ulid =>
            /\ meta[inv[p].hash].bytes = Serialize(NewEntry(inv[p]))
            /\ DiskCache_read(inv[p].hash) = [tag |-> "some", entry |-> NewEntry(inv[p])]

\* C33: at the step that ends a record persisting an entry with a cache_for
\* above zero into a new metadata file, a lookup of the hash with no max_age
\* finds the entry, however long the child has run.
C33_FreshRightAfterRecord ==
    [][\A p \in Procs :
          /\ inv[p].pc = "write" /\ inv'[p].pc = "done" /\ inv'[p].wrote
          /\ inv[p].cache_for # NoneT /\ inv[p].cache_for > 0
          /\ inv[p].fino = inv[p].ulid
          => (find(inv[p].hash, NoneT, now).tag = "some")']_vars

\* C34: whatever the wall clock shows, also a time before the entry's
\* created, every stored entry is classified Fresh, TooOld or Expired under
\* every look-back, Cache::find answers with the entry or with none, and test
\* and explain end without an error or a panic.
C34_ClassificationTotal ==
    \A h \in Hashes, lb \in LookBacks :
        DiskCache_read(h).tag = "some" =>
            /\ find_any_result_from_cache(h, lb, now).tag \in {"Fresh", "TooOld", "Expired"}
            /\ find(h, lb, now).tag \in {"some", "none"}
            /\ deja_test(h, lb, now).kind = "ok"
            /\ deja_explain(h, lb, now).kind = "ok"

\* C35: over every step that leaves the metadata file of a hash as it is,
\* under the advancing clock, an entry that was Expired is Expired under
\* every look-back, and an entry that was TooOld under look-back d is not
\* Fresh under d or under a smaller look-back.
C35_FreshnessOnlyDecays ==
    [][\A h \in Hashes, d \in LookBacks :
          meta'[h] = meta[h] =>
             LET v == find_any_result_from_cache(h, d, now).tag IN
             /\ v = "Expired" =>
                   \A d2 \in LookBacks : find_any_result_from_cache(h, d2, now').tag = "Expired"
             /\ v = "TooOld" =>
                   \A d2 \in {x \in LookBacks \ {NoneT} : x <= d} :
                      find_any_result_from_cache(h, d2, now').tag # "Fresh"]_vars

\* a test found an entry too old that was young enough for the same look-back
\* when it was created
C35_Witness ==
    \E p \in Procs :
        /\ IsDone(p) /\ inv[p].op = "test" /\ inv[p].verdict = "TooOld"
        /\ inv[p].look_back > 0 /\ inv[p].seen.created < inv[p].at
        /\ find_any_result_from_cache(inv[p].hash, inv[p].look_back, inv[p].seen.created).tag = "Fresh"

\* C36: every step of a run, force or remove on hash h leaves, for every
\* other hash, the metadata file, the set of stream files and with them the
\* classification under every look-back as they were.
C36_OtherHashesUntouched ==
    [][\A p \in Procs :
          inv'[p] # inv[p] /\ inv'[p].op \in {"run", "force", "remove"} =>
             \A h2 \in Hashes \ {inv'[p].hash} :
                /\ meta'[h2] = meta[h2]
                /\ StreamFilesOf(h2)' = StreamFilesOf(h2)
                /\ \A lb \in LookBacks :
                      find_any_result_from_cache(h2, lb, now)'
                         = find_any_result_from_cache(h2, lb, now)]_vars

\* an entry of one hash has been removed while the other hash has an entry
\* with both of its stream files
C36_Witness ==
    \E p \in Procs, h2 \in Hashes :
        /\ IsDone(p) /\ inv[p].op = "remove" /\ inv[p].exit = ExitOk(0)
        /\ h2 # inv[p].hash
        /\ DiskCache_read(h2).tag = "some"
        /\ StreamsOf(h2, DiskCache_read(h2).entry) \subseteq streams

\* C37: once Command::run has spawned the child and started the two reader
\* threads it returns with both threads ended, and the loop of replay_output
\* ends, whatever the child writes and wherever the stream files are cut
C37_RunAndReplayTerminate ==
    /\ (cap.pc = "run") ~>
          (cap.pc = "returned" /\ \A s \in StreamNames : cap.rd[s] # "reading")
    /\ (rp.pc = "loop") ~> (rp.pc = "end")

\* a run that returned after the child wrote more lines to one pipe than the
\* pipe holds, both readers at end of file; or a replay that ended on a
\* stdout file cut inside a record behind a record it printed
C37_Witness ==
    \/ /\ cap.pc = "returned"
       /\ \A s \in StreamNames : cap.rd[s] = "eof"
       /\ Len(cap.sink["out"]) > PipeCap
       /\ cap.sink["err"] # <<>>
    \/ /\ rp.pc = "end"
       /\ Len(rp.out) = MaxRecords
       /\ rp.onone /\ rp.enone

====
